---------------------------- MODULE Spec2Model ----------------------------
(***************************************************************************)
(* Model of the thunders lobby framework (server side: session fabric,     *)
(* lobby registry, message router and the per-lobby SyncRuntime worker;    *)
(* client side: the ReplyManager).                                         *)
(*                                                                         *)
(*   Spec        the server: connections routed through process_message,   *)
(*               the registry, and every lobby worker it starts.           *)
(*   SpecWorker  one lobby worker fed through its SyncGameHandle, with a   *)
(*               hook that may return any diff vector.                     *)
(*   SpecReply   the client ReplyManager under concurrent callers.         *)
(***************************************************************************)
EXTENDS Integers, Sequences, FiniteSets, TLC

(* ------------------------------ bounds -------------------------------- *)

\* number of events the environment pushes into the worker of SpecWorker
MaxEvents == 2
\* number of deltas a hooks instance hands out before it returns None
MaxEmit == 2
\* number of Create/Join/Action requests routed in Spec
MaxReqs == 2
\* number of register calls on the reply manager in SpecReply
MaxRegs == 2
\* last instant of the client clock in SpecReply
MaxClock == 1

(* Settings { tick_no_action_millis, tick_millis } in model time units *)
TickNoAction == 1
TickMs == 2

PlayerIds == {1, 2}
\* an id no connection ever uses (a hook may still target it)
GhostId == Cardinality(PlayerIds) + 1
Conns == {1, 2}
Types == {"chat"}
LobbyIds == {"r1", "r2"}
CorrIds == {"a", "b"}

VARIABLES
    conn,           \* connection -> [st, p_id]: the reader task of a connection
    sessions,       \* SessionManager.sessions: player id -> connection owning the queue
    outq,           \* connection -> messages enqueued to its outbound receiver
    subscriptions,  \* SessionManager.subscriptions: player id -> (type -> Seq(id))
    handlers,       \* GameRuntimeHandle.handlers per type: lobby id -> worker
    rt,             \* Seq of lobby workers (SyncRuntime + its thread + its channel)
    routed,         \* [n, last]: how many requests were routed (at most MaxReqs), and the last
    poisoned,       \* the subscriptions RwLock was poisoned by a panicking writer
    rx_dropped,     \* connections whose writer task ended: their outbound receiver is dropped
    replies_registry,     \* ReplyManager: id -> registration holding the Sender
    registered_timeouts,  \* ReplyManager: heap of [id, expires_at]
    delivered,      \* registration -> resolutions its Receiver was sent
    pushing,        \* register calls between their insert and their heap push
    rclock,         \* Instant::now() of the client
    vac,            \* vacuum caller -> [pc, now, popped]
    running,        \* the AtomicBool of the client's protocol task: its loop has not ended
    active_games,   \* ActiveGames.current: <<type, id>> -> the instance held for it
    calls,          \* <<type, id>> -> how the server answered the client's create / join
    on_finish_calls, \* <<type, id>> -> number of on_finish calls made on its instances
    codec           \* [pc, msg, wire, out]: an input envelope through the Json schema

vars == <<conn, sessions, outq, subscriptions, handlers, rt, routed, poisoned, rx_dropped,
          replies_registry, registered_timeouts, delivered, pushing, rclock, vac,
          running, active_games, calls, on_finish_calls, codec>>

serverVars == <<conn, sessions, outq, subscriptions, handlers, rt, routed, poisoned,
                rx_dropped>>
clientVars == <<running, active_games, calls, on_finish_calls, codec>>
replyVars == <<replies_registry, registered_timeouts, delivered, pushing, rclock, vac,
               clientVars>>

\* no request was routed yet
NoRequestYet ==
    [n |-> 0,
     last |-> [method |-> "", c |-> 0, correlation_id |-> "", type_ |-> "", id |-> "",
               known |-> FALSE, decodes |-> TRUE]]

(* ------------------------------ helpers ------------------------------- *)

Min(a, b) == IF a < b THEN a ELSE b

RECURSIVE SetToSeq(_)
SetToSeq(S) ==
    IF S = {} THEN <<>>
    ELSE LET x == CHOOSE y \in S : \A z \in S : y <= z
         IN  <<x>> \o SetToSeq(S \ {x})

RECURSIVE Count(_, _)
Count(s, x) ==
    IF s = <<>> THEN 0
    ELSE (IF Head(s) = x THEN 1 ELSE 0) + Count(Tail(s), x)

(* --------------------------- output messages -------------------------- *)

ConnectAck(cid, ok) ==
    [method |-> "connect", correlation_id |-> cid, success |-> ok,
     type_ |-> "", id |-> "", finished |-> FALSE, data |-> <<>>]
CreateAck(cid, ok) ==
    [method |-> "create", correlation_id |-> cid, success |-> ok,
     type_ |-> "", id |-> "", finished |-> FALSE, data |-> <<>>]
JoinAck(cid, ok) ==
    [method |-> "join", correlation_id |-> cid, success |-> ok,
     type_ |-> "", id |-> "", finished |-> FALSE, data |-> <<>>]
GenericError ==
    [method |-> "generic_error", correlation_id |-> "", success |-> FALSE,
     type_ |-> "", id |-> "", finished |-> FALSE, data |-> <<>>]

\* DiffNotification::new, through From<&DiffNotification> for OutputMessage
DiffNotificationNew(type_, id, data) ==
    [method |-> "diff", correlation_id |-> "", success |-> FALSE,
     type_ |-> type_, id |-> id, finished |-> FALSE, data |-> data]
\* DiffNotification::finish
DiffNotificationFinish(type_, id) ==
    [method |-> "diff", correlation_id |-> "", success |-> FALSE,
     type_ |-> type_, id |-> id, finished |-> TRUE, data |-> <<>>]

\* Serialize for H::Delta: the delta's bytes
SerializeDelta(delta) == <<delta>>

(* ----------------------------- session fabric ------------------------- *)

\* SessionManager::send on the queues q: a missing session drops the message, and so
\* does a session whose receiver is gone (let _ = session.send(..))
Send(q, p, msg) ==
    IF p \in DOMAIN sessions /\ sessions[p] \notin rx_dropped
    THEN [q EXCEPT ![sessions[p]] = Append(@, msg)]
    ELSE q

\* mutant: send_all gives up at the first id it cannot deliver to
RECURSIVE SendAllUntilError(_, _, _)
SendAllUntilError(q, ids, msg) ==
    IF ids = <<>> THEN q
    ELSE IF Head(ids) \in DOMAIN sessions /\ sessions[Head(ids)] \notin rx_dropped
         THEN SendAllUntilError(Send(q, Head(ids), msg), Tail(ids), msg)
         ELSE q

\* SessionManager::send_all: one encoded message cloned to each id in turn
RECURSIVE SendAll(_, _, _)
SendAll(q, ids, msg) ==
    IF ids = <<>> THEN q
    ELSE SendAll(Send(q, Head(ids), msg), Tail(ids), msg)

(* ------------------------------- diffs -------------------------------- *)

DiffAll(delta) == [kind |-> "All", ids |-> <<>>, delta |-> delta]
DiffTargetUnique(id, delta) == [kind |-> "TargetUnique", ids |-> <<id>>, delta |-> delta]
DiffTargetList(ids, delta) == [kind |-> "TargetList", ids |-> ids, delta |-> delta]

\* mutant: Diff::All broadcast to every session instead of the lobby's players
NotifyTargetsEverySession(r, diff) ==
    CASE diff.kind = "All" -> SetToSeq(DOMAIN sessions)
      [] diff.kind = "TargetUnique" -> <<diff.ids[1]>>
      [] OTHER -> diff.ids

\* the ids SyncRuntime::notify hands to send / send_all for one diff
NotifyTargets(r, diff) ==
    CASE diff.kind = "All" -> SetToSeq(r.players_cxts)
      [] diff.kind = "TargetUnique" -> <<diff.ids[1]>>
      [] OTHER -> diff.ids

\* SyncRuntime::notify
Notify(q, r, diff) ==
    SendAll(q, NotifyTargets(r, diff),
            DiffNotificationNew(r.type_, r.id, SerializeDelta(diff.delta)))

\* mutant: the diff vector drained from its end (while let Some(diff) = diffs.pop())
RECURSIVE NotifyEachFromEnd(_, _, _)
NotifyEachFromEnd(q, r, diffs) ==
    IF diffs = <<>> THEN q
    ELSE NotifyEachFromEnd(Notify(q, r, diffs[Len(diffs)]), r, SubSeq(diffs, 1, Len(diffs) - 1))

\* for diff in diffs { self.notify(diff) }
RECURSIVE NotifyEach(_, _, _)
NotifyEach(q, r, diffs) ==
    IF diffs = <<>> THEN q
    ELSE NotifyEach(Notify(q, r, Head(diffs)), r, Tail(diffs))


(* ------------------------------- hooks -------------------------------- *)
(* A GameHooks instance is user code.  The instance modelled numbers the   *)
(* deltas it hands out (hooks.seq), may return any of DiffVecs from        *)
(* on_join / on_tick and any vector of at most one diff from on_leave;     *)
(* what is_finished answers is its own choice at every call.               *)

DiffShapes ==
    {DiffAll(0), DiffTargetUnique(2, 0), DiffTargetUnique(GhostId, 0),
     DiffTargetList(<<1, 2>>, 0), DiffTargetList(<<2, 2>>, 0)}

DiffVecs ==
    {<<>>} \cup {<<d>> : d \in DiffShapes}
           \cup {<<DiffAll(0), DiffTargetUnique(2, 0)>>}

OptDiffs == {<<>>} \cup {<<d>> : d \in DiffShapes}

\* the terminal delta is_finished may return with true
TerminalDiffs == {<<>>, <<DiffAll(0)>>, <<DiffTargetUnique(1, 0)>>}

Numbered(vec, from) == [k \in 1..Len(vec) |-> [vec[k] EXCEPT !.delta = from + k]]

\* H::build(options): the instance built from "loud" options hands out up to MaxEmit
\* deltas, the one built from Options::default() none
HooksBuild(options) == [seq |-> IF options = "loud" THEN 0 ELSE MaxEmit]

\* what a mutating hook call may return and leave behind
HookOutcomes(h, vecs) ==
    {[ret |-> Numbered(v, h.seq), hooks |-> [seq |-> h.seq + Len(v)]] :
        v \in {x \in vecs : h.seq + Len(x) <= MaxEmit}}

\* what hooks.is_finished() may answer: (false, None) or (true, terminal delta)
IsFinished(h) ==
    {[finished |-> FALSE, diff |-> <<>>]}
        \cup {[finished |-> TRUE, diff |-> t] :
                 t \in {x \in TerminalDiffs : h.seq + Len(x) <= MaxEmit}}

Call(hook, p, players, actions, ret) ==
    [hook |-> hook, p |-> p, players |-> players, actions |-> actions, ret |-> ret]

Emitted(r, diffs) == [k \in 1..Len(diffs) |-> [diff |-> diffs[k], players |-> r.players_cxts]]

(* ---------------------------- lobby worker ---------------------------- *)

EvAction(p, data) == [kind |-> "Action", p |-> p, data |-> data]
EvJoin(p) == [kind |-> "Join", p |-> p, data |-> 0]
EvLeave(p) == [kind |-> "Leave", p |-> p, data |-> 0]

\* SyncRuntime::build followed by SyncRuntime::start: the thread is at the top of its loop
RuntimeStart(type_, id, options) ==
    [type_ |-> type_, id |-> id, pc |-> "check", chan |-> <<>>, connected |-> TRUE,
     players_cxts |-> {}, actions_buffer |-> <<>>,
     tick |-> 0, timer |-> 0, elapsed |-> 0,
     hooks |-> HooksBuild(options),
     sent |-> <<>>, received |-> <<>>, ticked |-> <<>>, emitted |-> <<>>,
     lastCall |-> Call("build", 0, {}, <<>>, <<>>)]

\* mutant: a stopped runtime still takes the event into its channel
HandleSendToStopped(r, ev) ==
    [r EXCEPT !.sent = Append(@, ev), !.chan = Append(@, ev)]

\* mutant: the sender runs the Join on the runtime itself instead of enqueueing it
HandleSendRunsHook(r, ev) ==
    IF ev.kind = "Join"
    THEN [r EXCEPT !.sent = Append(@, ev),
                   !.players_cxts = @ \cup {ev.p},
                   !.lastCall = Call("on_join", ev.p, r.players_cxts \cup {ev.p}, <<>>, <<>>)]
    ELSE [r EXCEPT !.sent = Append(@, ev),
                   !.chan = IF r.pc = "done" THEN @ ELSE Append(@, ev)]

\* mutant: the event is put at the head of the channel
HandleSendPushFront(r, ev) ==
    [r EXCEPT !.sent = Append(@, ev),
              !.chan = IF r.pc = "done" THEN @ ELSE <<ev>> \o @]

\* SyncGameHandle::send: a send to a stopped runtime is skipped
HandleSend(r, ev) ==
    [r EXCEPT !.sent = Append(@, ev),
              !.chan = IF r.pc = "done" THEN @ ELSE Append(@, ev)]

\* mutant: the finish notice enqueued before the terminal delta
FinishSendsNoticeFirst(q, r, term) ==
    NotifyEach(SendAll(q, SetToSeq(r.players_cxts), DiffNotificationFinish(r.type_, r.id)),
               r, term)

\* what is enqueued on finish: the optional terminal delta, then the finish notice
FinishSends(q, r, term) ==
    SendAll(NotifyEach(q, r, term), SetToSeq(r.players_cxts),
            DiffNotificationFinish(r.type_, r.id))

\* top of the loop: hooks.is_finished()
Check(w) ==
    /\ rt[w].pc = "check"
    /\ LET r == rt[w] IN
       \E fin \in IsFinished(r.hooks) :
         IF fin.finished
         THEN /\ outq' = FinishSends(outq, r, fin.diff)
              /\ rt' = [rt EXCEPT ![w] =
                          [r EXCEPT !.pc = "done", !.chan = <<>>,
                                    !.emitted = @ \o Emitted(r, fin.diff),
                                    !.lastCall = Call("is_finished", 0, r.players_cxts, <<>>, fin.diff)]]
         ELSE /\ outq' = outq
              /\ rt' = [rt EXCEPT ![w] =
                          [r EXCEPT !.pc = "recv", !.timer = TickNoAction,
                                    !.lastCall = Call("is_finished", 0, r.players_cxts, <<>>, <<>>)]]
    /\ UNCHANGED <<conn, sessions, subscriptions, handlers, routed, poisoned, rx_dropped, replyVars>>

\* mutant: on_leave is called whether or not the player was held
LeaveOutcomesAlwaysHook(q, r, id) ==
    LET r1 == [r EXCEPT !.players_cxts = @ \ {id}] IN
    {[outq |-> NotifyEach(q, r1, o.ret),
      rt |-> [r1 EXCEPT !.hooks = o.hooks,
                        !.emitted = @ \o Emitted(r1, o.ret),
                        !.lastCall = Call("on_leave", id, r1.players_cxts, <<>>, o.ret)]] :
        o \in HookOutcomes(r.hooks, OptDiffs)}

\* RuntimeAction::Leave arm: remove, then on_leave only for a known player
LeaveOutcomes(q, r, id) ==
    IF id \in r.players_cxts
    THEN LET r1 == [r EXCEPT !.players_cxts = @ \ {id}] IN
         {[outq |-> NotifyEach(q, r1, o.ret),
           rt |-> [r1 EXCEPT !.hooks = o.hooks,
                             !.emitted = @ \o Emitted(r1, o.ret),
                             !.lastCall = Call("on_leave", id, r1.players_cxts, <<>>, o.ret)]] :
             o \in HookOutcomes(r.hooks, OptDiffs)}
    ELSE {[outq |-> q, rt |-> r]}

\* mutant: a Join is only recorded in players; its hook waits for the tick
JoinOutcomesDeferred(q, r, id) ==
    {[outq |-> q, rt |-> [r EXCEPT !.players_cxts = @ \cup {id}]]}

\* RuntimeAction::Join arm: insert, then on_join
JoinOutcomes(q, r, id) ==
    LET r1 == [r EXCEPT !.players_cxts = @ \cup {id}] IN
    {[outq |-> NotifyEach(q, r1, o.ret),
      rt |-> [r1 EXCEPT !.hooks = o.hooks,
                        !.emitted = @ \o Emitted(r1, o.ret),
                        !.lastCall = Call("on_join", id, r1.players_cxts, <<>>, o.ret)]] :
        o \in HookOutcomes(r.hooks, DiffVecs)}

\* mutant: the action is put in front of the ones buffered before it
BufferPushFront(r, ev) ==
    [r EXCEPT !.actions_buffer = <<<<ev.p, ev.data>>>> \o @,
              !.received = Append(@, <<ev.p, ev.data>>)]

\* RuntimeAction::Action arm: actions_buffer.push((event.0, action))
BufferPush(r, ev) ==
    [r EXCEPT !.actions_buffer = Append(@, <<ev.p, ev.data>>),
              !.received = Append(@, <<ev.p, ev.data>>)]

\* the first Action of a cycle: now = Instant::now(); tick = self.tick
WindowOpen(r) == [r EXCEPT !.pc = "window", !.elapsed = 0, !.tick = TickMs, !.timer = TickMs]

\* mutant: every event of the window re-arms the full tick
WindowBudgetRearmed(r) == [r EXCEPT !.tick = TickMs, !.timer = TickMs]

\* tick.checked_sub(now.elapsed()): the next recv_timeout budget, or break
WindowBudget(r) ==
    IF r.tick >= r.elapsed
    THEN [r EXCEPT !.tick = r.tick - r.elapsed, !.timer = r.tick - r.elapsed]
    ELSE [r EXCEPT !.pc = "ontick"]

\* on_tick(&players, actions) and the notify of each diff
OnTickOutcomes(q, r, actions) ==
    {[outq |-> NotifyEach(q, r, o.ret),
      rt |-> [r EXCEPT !.hooks = o.hooks,
                       !.emitted = @ \o Emitted(r, o.ret),
                       !.ticked = @ \o actions,
                       !.lastCall = Call("on_tick", 0, r.players_cxts, actions, o.ret)]] :
        o \in HookOutcomes(r.hooks, DiffVecs)}

\* mutant: a pass of the loop ends at the receive, not at the finish check
NextCycleSkipsCheck(r) ==
    [r EXCEPT !.pc = "recv", !.tick = 0, !.timer = TickNoAction, !.elapsed = 0]

\* the end of one pass of the loop: its locals (now, tick) go out of scope
NextCycle(r) == [r EXCEPT !.pc = "check", !.tick = 0, !.timer = 0, !.elapsed = 0]

\* recv_timeout(tick_no_action) returned an event
Recv(w) ==
    /\ rt[w].pc = "recv"
    /\ rt[w].chan # <<>>
    /\ LET ev == Head(rt[w].chan)
           r == [rt[w] EXCEPT !.chan = Tail(@)] IN
       CASE ev.kind = "Action" ->
              /\ rt' = [rt EXCEPT ![w] = WindowOpen(BufferPush(r, ev))]
              /\ outq' = outq
         [] ev.kind = "Leave" ->
              \E o \in LeaveOutcomes(outq, r, ev.p) :
                /\ rt' = [rt EXCEPT ![w] = NextCycle(o.rt)]
                /\ outq' = o.outq
         [] OTHER ->
              \E o \in JoinOutcomes(outq, r, ev.p) :
                /\ rt' = [rt EXCEPT ![w] = NextCycle(o.rt)]
                /\ outq' = o.outq
    /\ UNCHANGED <<conn, sessions, subscriptions, handlers, routed, poisoned, rx_dropped, replyVars>>

\* mutant: the idle timeout only continues (no on_tick on an idle cycle)
IdleOutcomesContinueOnly(q, r) == {[outq |-> q, rt |-> NextCycle(r)]}

\* the else arm of recv_timeout(tick_no_action): on_tick(&players, vec![])
IdleOutcomes(q, r) ==
    {[outq |-> o.outq, rt |-> NextCycle(o.rt)] : o \in OnTickOutcomes(q, r, <<>>)}

\* recv_timeout gives Err on timeout, and at once when every Sender is dropped
RecvErr(r) == r.chan = <<>> /\ (r.timer = 0 \/ ~r.connected)

IdleTimeout(w) ==
    /\ rt[w].pc = "recv"
    /\ RecvErr(rt[w])
    /\ \E o \in IdleOutcomes(outq, rt[w]) :
         /\ rt' = [rt EXCEPT ![w] = o.rt]
         /\ outq' = o.outq
    /\ UNCHANGED <<conn, sessions, subscriptions, handlers, routed, poisoned, rx_dropped, replyVars>>

\* while let Ok(event) = recv_timeout(tick): one event of the batching window
WindowEvent(w) ==
    /\ rt[w].pc = "window"
    /\ rt[w].chan # <<>>
    /\ LET ev == Head(rt[w].chan)
           r == [rt[w] EXCEPT !.chan = Tail(@)] IN
       CASE ev.kind = "Action" ->
              /\ rt' = [rt EXCEPT ![w] = WindowBudget(BufferPush(r, ev))]
              /\ outq' = outq
         [] ev.kind = "Leave" ->
              \E o \in LeaveOutcomes(outq, r, ev.p) :
                /\ rt' = [rt EXCEPT ![w] = WindowBudget(o.rt)]
                /\ outq' = o.outq
         [] OTHER ->
              \E o \in JoinOutcomes(outq, r, ev.p) :
                /\ rt' = [rt EXCEPT ![w] = WindowBudget(o.rt)]
                /\ outq' = o.outq
    /\ UNCHANGED <<conn, sessions, subscriptions, handlers, routed, poisoned, rx_dropped, replyVars>>

\* the window's recv_timeout(tick) gave Err: the while loop ends
WindowTimeout(w) ==
    /\ rt[w].pc = "window"
    /\ RecvErr(rt[w])
    /\ rt' = [rt EXCEPT ![w].pc = "ontick"]
    /\ UNCHANGED <<conn, sessions, outq, subscriptions, handlers, routed, poisoned, rx_dropped, replyVars>>

\* mutant: the buffer is passed as a copy and never taken
TickOutcomesBufferKept(q, r) ==
    {[outq |-> o.outq, rt |-> NextCycle(o.rt)] :
        o \in OnTickOutcomes(q, r, r.actions_buffer)}

\* on_tick(&players, mem::take(&mut actions_buffer))
TickOutcomes(q, r) ==
    {[outq |-> o.outq, rt |-> [NextCycle(o.rt) EXCEPT !.actions_buffer = <<>>]] :
        o \in OnTickOutcomes(q, r, r.actions_buffer)}

OnTick(w) ==
    /\ rt[w].pc = "ontick"
    /\ \E o \in TickOutcomes(outq, rt[w]) :
         /\ rt' = [rt EXCEPT ![w] = o.rt]
         /\ outq' = o.outq
    /\ UNCHANGED <<conn, sessions, subscriptions, handlers, routed, poisoned, rx_dropped, replyVars>>

(* Time.  A worker whose receive can return, or which is between two       *)
(* receives, runs before the clock moves (no scheduling slack); a worker   *)
(* whose Sender was dropped never blocks and does not hold the clock.      *)
Urgent(r) ==
    /\ r.connected
    /\ \/ r.pc \in {"check", "ontick"}
       \/ r.pc \in {"recv", "window"} /\ (r.chan # <<>> \/ r.timer = 0)

Waiting(r) == r.pc \in {"recv", "window"} /\ r.timer > 0

Elapse(r) ==
    [r EXCEPT !.timer = IF Waiting(r) THEN @ - 1 ELSE @,
              !.elapsed = IF r.pc \in {"window", "ontick"} THEN Min(@ + 1, TickMs + 1) ELSE @]

Advance ==
    /\ \A w \in DOMAIN rt : ~Urgent(rt[w])
    /\ \E w \in DOMAIN rt : Waiting(rt[w])
    /\ rt' = [w \in DOMAIN rt |-> Elapse(rt[w])]
    /\ UNCHANGED <<conn, sessions, outq, subscriptions, handlers, routed, poisoned, rx_dropped, replyVars>>

WorkerStep(w) ==
    \/ Check(w)
    \/ Recv(w)
    \/ IdleTimeout(w)
    \/ WindowEvent(w)
    \/ WindowTimeout(w)
    \/ OnTick(w)

(* ---------------------------- ReplyManager --------------------------- *)
(* delivered[n] is what the Receiver returned by the n-th register call    *)
(* was sent.  The heap is the set of its entries; peek and pop take an     *)
(* entry of least expires_at.                                              *)

VacCallers == {1, 2}
ExpiresIn == {1}

RegisteredTimeout(id, expires_at, n) == [id |-> id, expires_at |-> expires_at, n |-> n]

NoTimeout == RegisteredTimeout("", 0, 0)

\* a caller outside vacuum
VacuumIdle == [pc |-> "idle", now |-> 0, popped |-> NoTimeout]

\* mutant: peek and pop take an entry of greatest expires_at
HeapTopLatest(h) == {e \in h : \A f \in h : f.expires_at <= e.expires_at}

\* BinaryHeap::peek / pop under the reversed Ord of RegisteredTimeout
HeapTop(h) == {e \in h : \A f \in h : e.expires_at <= f.expires_at}

\* mutant: the pending reply is looked up and left in the registry
RegistryKeep(reg, id) == reg

\* HashMap::remove(id) on the registry
RegistryRemove(reg, id) == [i \in DOMAIN reg \ {id} |-> reg[i]]

\* pending_reply.send(reply) on the Sender of registration n
SenderSend(d, n, reply) == [d EXCEPT ![n] = Append(@, reply)]

\* ReplyManager::register, first half: the Sender goes into the registry
RegisterInsert(id, expires_in) ==
    /\ Len(delivered) < MaxRegs
    /\ LET n == Len(delivered) + 1 IN
       /\ replies_registry' = [i \in DOMAIN replies_registry \cup {id} |->
                                 IF i = id THEN n ELSE replies_registry[i]]
       /\ delivered' = Append(delivered, <<>>)
       /\ pushing' = pushing \cup {RegisteredTimeout(id, rclock + expires_in, n)}
    /\ UNCHANGED <<registered_timeouts, rclock, vac, serverVars, clientVars>>

\* ReplyManager::register, second half: the expiry goes onto the heap
RegisterPush(e) ==
    /\ e \in pushing
    /\ pushing' = pushing \ {e}
    /\ registered_timeouts' = registered_timeouts \cup {e}
    /\ UNCHANGED <<replies_registry, delivered, rclock, vac, serverVars, clientVars>>

\* ReplyManager::ok / ReplyManager::error: remove, then send on what was removed
Resolve(id, reply) ==
    /\ IF id \in DOMAIN replies_registry
       THEN /\ delivered' = SenderSend(delivered, replies_registry[id], reply)
            /\ replies_registry' = RegistryRemove(replies_registry, id)
       ELSE UNCHANGED <<delivered, replies_registry>>
    /\ UNCHANGED <<registered_timeouts, pushing, rclock, vac, serverVars, clientVars>>

Ok(id) == Resolve(id, "Ok")

Error(id) == Resolve(id, "Err")

\* ReplyManager::vacuum: let now = Instant::now()
VacuumStart(t) ==
    /\ vac[t].pc = "idle"
    /\ vac' = [vac EXCEPT ![t] = [pc |-> "peek", now |-> rclock, popped |-> NoTimeout]]
    /\ UNCHANGED <<replies_registry, registered_timeouts, delivered, pushing, rclock, serverVars, clientVars>>

\* vacuum: peek under the read lock; break on an empty heap or an unexpired top
VacuumPeek(t) ==
    /\ vac[t].pc = "peek"
    /\ \/ /\ registered_timeouts = {}
          /\ vac' = [vac EXCEPT ![t] = VacuumIdle]
       \/ \E e \in HeapTop(registered_timeouts) :
            vac' = [vac EXCEPT ![t] = IF vac[t].now < e.expires_at
                                      THEN VacuumIdle ELSE [@ EXCEPT !.pc = "pop"]]
    /\ UNCHANGED <<replies_registry, registered_timeouts, delivered, pushing, rclock, serverVars, clientVars>>

\* vacuum: pop under the write lock; expect() panics on an empty heap
VacuumPop(t) ==
    /\ vac[t].pc = "pop"
    /\ \/ /\ registered_timeouts = {}
          /\ vac' = [vac EXCEPT ![t].pc = "panicked"]
          /\ UNCHANGED registered_timeouts
       \/ \E e \in HeapTop(registered_timeouts) :
            /\ registered_timeouts' = registered_timeouts \ {e}
            /\ vac' = [vac EXCEPT ![t] = [pc |-> "remove", now |-> vac[t].now, popped |-> e]]
    /\ UNCHANGED <<replies_registry, delivered, pushing, rclock, serverVars, clientVars>>

\* vacuum: remove the popped id from the registry and send Timeout, then loop
VacuumRemove(t) ==
    /\ vac[t].pc = "remove"
    /\ LET id == vac[t].popped.id IN
       IF id \in DOMAIN replies_registry
       THEN /\ delivered' = SenderSend(delivered, replies_registry[id], "Timeout")
            /\ replies_registry' = RegistryRemove(replies_registry, id)
       ELSE UNCHANGED <<delivered, replies_registry>>
    /\ vac' = [vac EXCEPT ![t] = [pc |-> "peek", now |-> vac[t].now, popped |-> NoTimeout]]
    /\ UNCHANGED <<registered_timeouts, pushing, rclock, serverVars, clientVars>>

ClientClock ==
    /\ rclock < MaxClock
    /\ rclock' = rclock + 1
    /\ UNCHANGED <<replies_registry, registered_timeouts, delivered, pushing, vac, serverVars, clientVars>>

\* a client whose protocol task runs and that holds no game
ClientIdle ==
    /\ running = TRUE
    /\ active_games = <<>>
    /\ calls = <<>>
    /\ on_finish_calls = <<>>
    /\ codec = <<>>

ServerIdle ==
    /\ conn = <<>>
    /\ sessions = <<>>
    /\ outq = <<>>
    /\ subscriptions = <<>>
    /\ handlers = <<>>
    /\ rt = <<>>
    /\ routed = NoRequestYet
    /\ poisoned = FALSE
    /\ rx_dropped = {}

InitReply ==
    /\ replies_registry = <<>>
    /\ registered_timeouts = {}
    /\ delivered = <<>>
    /\ pushing = {}
    /\ rclock = 0
    /\ vac = [t \in VacCallers |-> VacuumIdle]
    /\ ClientIdle
    /\ ServerIdle

NextReply ==
    \/ \E id \in CorrIds, d \in ExpiresIn : RegisterInsert(id, d)
    \/ \E e \in pushing : RegisterPush(e)
    \/ \E id \in CorrIds : Ok(id)
    \/ \E id \in CorrIds : Error(id)
    \/ \E t \in VacCallers : VacuumStart(t)
    \/ \E t \in VacCallers : VacuumPeek(t)
    \/ \E t \in VacCallers : VacuumPop(t)
    \/ \E t \in VacCallers : VacuumRemove(t)
    \/ ClientClock

SpecReply == InitReply /\ [][NextReply]_vars

(* C4: whatever the interleaving of ok, error and vacuum, the awaitable    *)
(* returned by a register call is sent at most one resolution; the first   *)
(* resolver wins and a later resolution for the id changes nothing.        *)
C4_AtMostOneResolution ==
    /\ [](\A n \in DOMAIN delivered : Len(delivered[n]) <= 1)
    /\ [][\A n \in DOMAIN delivered :
            delivered[n] # <<>> => delivered'[n] = delivered[n]]_vars

\* the first registration was resolved by ok; a vacuum has popped its expired entry and
\* is about to resolve that id, while a second registration is still unresolved
C4_Witness ==
    /\ Len(delivered) = 2
    /\ delivered[1] = <<"Ok">>
    /\ delivered[2] = <<>>
    /\ \E t \in VacCallers : vac[t].pc = "remove" /\ vac[t].popped.n = 1

(* -------------- SpecVacuum: the ReplyManager as the client runs it ----- *)
(* The task spawned by WebSocketClientProtocol::run is the only caller of  *)
(* vacuum, ok and error; register is called from the client's call sites   *)
(* and runs concurrently with that task.                                   *)

\* the task spawned by WebSocketClientProtocol::run
LoopTask == 1

\* expires_in of a register call
ExpiresSoon == {0, 1}

NextVacuum ==
    \/ \E id \in CorrIds, d \in ExpiresSoon : RegisterInsert(id, d)
    \/ \E e \in pushing : RegisterPush(e)
    \/ \E id \in CorrIds : Ok(id)
    \/ \E id \in CorrIds : Error(id)
    \/ VacuumStart(LoopTask)
    \/ VacuumPeek(LoopTask)
    \/ VacuumPop(LoopTask)
    \/ VacuumRemove(LoopTask)
    \/ ClientClock

SpecVacuum == InitReply /\ [][NextVacuum]_vars

\* the expiry entries that exist: being pushed, on the heap, or popped by a vacuum
Expiries ==
    pushing \cup registered_timeouts
        \cup {vac[t].popped : t \in {u \in DOMAIN vac : vac[u].pc = "remove"}}

\* the correlation id was given to one registration only
UniqueId(id) == Cardinality({e \in Expiries : e.id = id}) <= 1

\* registration n still waits: its Sender is in the registry and nothing was sent on it
Pending(n) ==
    /\ delivered[n] = <<>>
    /\ \E id \in DOMAIN replies_registry : replies_registry[id] = n

LoopStop ==
    /\ running
    /\ vac[LoopTask].pc = "idle"
    /\ running' = FALSE
    /\ UNCHANGED <<replies_registry, registered_timeouts, delivered, pushing, rclock, vac,
                   active_games, calls, on_finish_calls, codec, serverVars>>

\* the arms of the select loop are taken only while the loop runs
LoopOk(id) == running /\ Ok(id)
LoopError(id) == running /\ Error(id)
LoopVacuum == running /\ VacuumStart(LoopTask)

\* a register call whose expiry the clock of the model reaches
RegisterCall(id, d) == rclock + d <= MaxClock /\ RegisterInsert(id, d)

\* vacuum, once entered, runs to its return
VacuumBody ==
    \/ VacuumPeek(LoopTask)
    \/ VacuumPop(LoopTask)
    \/ VacuumRemove(LoopTask)

NextLoop ==
    \/ \E id \in CorrIds, d \in ExpiresSoon : RegisterCall(id, d)
    \/ \E e \in pushing : RegisterPush(e)
    \/ \E id \in CorrIds : LoopOk(id)
    \/ \E id \in CorrIds : LoopError(id)
    \/ LoopVacuum
    \/ VacuumBody
    \/ LoopStop
    \/ ClientClock

\* the interval of the loop keeps ticking while it runs, a started call finishes, and
\* time passes
SpecLoop ==
    /\ InitReply
    /\ [][NextLoop]_vars
    /\ WF_vars(LoopVacuum)
    /\ WF_vars(VacuumBody)
    /\ WF_vars(\E e \in pushing : RegisterPush(e))
    /\ WF_vars(ClientClock)

\* registration n was made and still waits
PendingReply(n) == n \in DOMAIN delivered /\ Pending(n)

(* C22: every pending reply a client call registered is eventually         *)
(* resolved (by an ack, an error or the vacuum), also after the protocol   *)
(* loop has stopped: no call site waits forever.                           *)
C22_EveryPendingReplyResolved ==
    \A n \in 1..MaxRegs : PendingReply(n) ~> ~PendingReply(n)

(* ------------------------ SpecWorker: one lobby ----------------------- *)
(* The state after players 1 and 2 connected and player 1 created          *)
(* ("chat", "r1"); events then reach the worker through its handle as the  *)
(* registry's join / leave / action forward them.                          *)

ReplyIdle ==
    /\ replies_registry = <<>>
    /\ registered_timeouts = {}
    /\ delivered = <<>>
    /\ pushing = {}
    /\ rclock = 0
    /\ vac = <<>>
    /\ ClientIdle

InitWorker ==
    /\ conn = [c \in Conns |-> [st |-> "open", p_id |-> c]]
    /\ sessions = [p \in PlayerIds |-> p]
    /\ outq = [c \in Conns |->
                 IF c = 1 THEN <<ConnectAck("a", TRUE), CreateAck("b", TRUE)>>
                 ELSE <<ConnectAck("a", TRUE)>>]
    /\ subscriptions = [p \in PlayerIds |->
                 IF p = 1 THEN [t \in {"chat"} |-> <<"r1">>] ELSE <<>>]
    /\ handlers = [t \in Types |-> [i \in {"r1"} |-> 1]]
    /\ rt = <<HandleSend(RuntimeStart("chat", "r1", "loud"), EvJoin(1))>>
    /\ routed = NoRequestYet
    /\ poisoned = FALSE
    /\ rx_dropped = {}
    /\ ReplyIdle

\* each Action carries a payload of its own: the number of the event
EnvEvents(n) ==
    {EvJoin(2), EvLeave(2)} \cup {EvAction(p, n) : p \in PlayerIds}

EnvSend ==
    /\ Len(rt[1].sent) <= MaxEvents
    /\ \E ev \in EnvEvents(Len(rt[1].sent)) : rt' = [rt EXCEPT ![1] = HandleSend(@, ev)]
    /\ UNCHANGED <<conn, sessions, outq, subscriptions, handlers, routed, poisoned, rx_dropped, replyVars>>

NextWorker ==
    \/ EnvSend
    \/ Check(1)
    \/ Recv(1)
    \/ IdleTimeout(1)
    \/ WindowEvent(1)
    \/ WindowTimeout(1)
    \/ OnTick(1)
    \/ Advance

SpecWorker == InitWorker /\ [][NextWorker]_vars


(* --------------------- claims about one lobby worker ------------------ *)

\* the deltas of the (unfinished) Diff envelopes of lobby (type_, id) in queue q, in order
RECURSIVE DeltasIn(_, _, _)
DeltasIn(q, type_, id) ==
    IF q = <<>> THEN <<>>
    ELSE LET m == Head(q) IN
         (IF m.method = "diff" /\ ~m.finished /\ m.type_ = type_ /\ m.id = id
          THEN <<m.data[1]>> ELSE <<>>) \o DeltasIn(Tail(q), type_, id)

Range(s) == {s[k] : k \in DOMAIN s}

\* who an emitted diff names, by the Diff contract
ExpectedRecipients(e) ==
    CASE e.diff.kind = "All" -> e.players
      [] e.diff.kind = "TargetUnique" -> {e.diff.ids[1]}
      [] OTHER -> Range(e.diff.ids)

\* how often an emitted diff names p
Occurrences(e, p) ==
    CASE e.diff.kind = "All" -> IF p \in e.players THEN 1 ELSE 0
      [] e.diff.kind = "TargetUnique" -> IF e.diff.ids[1] = p THEN 1 ELSE 0
      [] OTHER -> Count(e.diff.ids, p)

Repeat(x, n) == [k \in 1..n |-> x]

\* the deltas p is owed by the emissions es, each once, in emission order
RECURSIVE OwedOnce(_, _)
OwedOnce(es, p) ==
    IF es = <<>> THEN <<>>
    ELSE (IF p \in ExpectedRecipients(Head(es)) THEN <<Head(es).diff.delta>> ELSE <<>>)
            \o OwedOnce(Tail(es), p)

\* the deltas p is owed by the emissions es, once per naming of p, in emission order
RECURSIVE OwedPerNaming(_, _)
OwedPerNaming(es, p) ==
    IF es = <<>> THEN <<>>
    ELSE Repeat(Head(es).diff.delta, Occurrences(Head(es), p)) \o OwedPerNaming(Tail(es), p)

QueueOf(p) == outq[sessions[p]]

C6_FanOutTargets ==
    \A w \in DOMAIN rt : \A p \in DOMAIN sessions :
        Range(DeltasIn(QueueOf(p), rt[w].type_, rt[w].id))
            = {rt[w].emitted[k].diff.delta :
                 k \in {j \in DOMAIN rt[w].emitted : p \in ExpectedRecipients(rt[w].emitted[j])}}

\* on_join of player 2 returned TargetUnique{2}: it is in 2's queue and not in the creator's
C6_Witness ==
    /\ rt[1].lastCall.hook = "on_join"
    /\ rt[1].lastCall.p = 2
    /\ rt[1].players_cxts = {1, 2}
    /\ rt[1].emitted = <<[diff |-> DiffTargetUnique(2, 1), players |-> {1, 2}]>>
    /\ DeltasIn(QueueOf(2), "chat", "r1") = <<1>>
    /\ DeltasIn(QueueOf(1), "chat", "r1") = <<>>

(* C7: every Action a worker receives is passed to exactly one on_tick     *)
(* call; one call gets exactly the actions received since the previous     *)
(* call, as (player_id, action) in arrival order, and the buffer is empty  *)
(* after the call.                                                         *)
C7_ActionsTickedOnceInOrder ==
    \A w \in DOMAIN rt :
        /\ rt[w].received = rt[w].ticked \o rt[w].actions_buffer
        /\ rt[w].pc \in {"check", "recv", "done"} => rt[w].actions_buffer = <<>>
        /\ rt[w].lastCall.hook = "on_tick" =>
             /\ Len(rt[w].lastCall.actions) <= Len(rt[w].ticked)
             /\ SubSeq(rt[w].ticked, Len(rt[w].ticked) - Len(rt[w].lastCall.actions) + 1,
                       Len(rt[w].ticked)) = rt[w].lastCall.actions

\* one on_tick got a batch of two actions of different players, in arrival order
C7_Witness ==
    /\ rt[1].pc = "check"
    /\ rt[1].lastCall.hook = "on_tick"
    /\ Len(rt[1].lastCall.actions) = 2
    /\ rt[1].lastCall.actions[1][1] = 2
    /\ rt[1].lastCall.actions[2][1] = 1
    /\ rt[1].lastCall.actions = rt[1].received

(* C8: once an Action opened a batching window at time T, the on_tick      *)
(* that consumes it begins no later than T + tick whatever arrives during  *)
(* the window, and the window's remaining budget never grows.              *)
C8_BatchingBound ==
    /\ [](\A w \in DOMAIN rt :
            /\ rt[w].pc = "window" => rt[w].elapsed + rt[w].timer <= TickMs
            /\ rt[w].pc = "window" => rt[w].timer <= rt[w].tick
            /\ rt[w].pc = "ontick" => rt[w].elapsed <= TickMs)
    /\ [][\A w \in DOMAIN rt :
            rt[w].pc = "window" /\ rt'[w].pc = "window" => rt'[w].tick <= rt[w].tick]_vars

\* an on_tick that begins exactly at T + tick, after a second event arrived in the window
C8_Witness ==
    /\ rt[1].pc = "ontick"
    /\ rt[1].elapsed = TickMs
    /\ Len(rt[1].actions_buffer) = 2
    /\ rt[1].tick < TickMs

(* C9: on the first true of is_finished the worker emits the optional      *)
(* terminal delta, then enqueues Diff{finished:true} to every player in    *)
(* players, in that order, and exits without calling another hook.         *)
C9_FinishSequence ==
    \A w \in DOMAIN rt :
        rt[w].pc = "done" =>
            LET r == rt[w]
                fin == DiffNotificationFinish(r.type_, r.id)
                term == r.lastCall.ret
                termEnv == DiffNotificationNew(r.type_, r.id, SerializeDelta(0))
                named(p) == term # <<>> /\
                            p \in ExpectedRecipients([diff |-> term[1], players |-> r.players_cxts])
            IN  /\ r.lastCall.hook = "is_finished"
                /\ \A p \in DOMAIN sessions :
                     LET q == QueueOf(p) IN
                     /\ Count(q, fin) = (IF p \in r.players_cxts THEN 1 ELSE 0)
                     /\ p \in r.players_cxts => q[Len(q)] = fin
                     /\ Count(q, termEnv) = (IF named(p) THEN 1 ELSE 0)
                     /\ p \in r.players_cxts /\ named(p) => q[Len(q) - 1] = termEnv
                     /\ p \notin r.players_cxts /\ named(p) => q[Len(q)] = termEnv

\* a worker that finished with both players joined and a terminal delta for all
C9_Witness ==
    /\ rt[1].pc = "done"
    /\ rt[1].players_cxts = {1, 2}
    /\ rt[1].lastCall.ret = <<DiffAll(0)>>
    /\ Len(QueueOf(2)) >= 3

(* C10: when the wait of tick_no_action ends with no event, the worker     *)
(* calls on_tick(players, []) and emits the diffs it returns before the    *)
(* next cycle starts.                                                      *)
C10_IdleTickCallsOnTick ==
    [][\A w \in DOMAIN rt :
         rt[w].pc = "recv" /\ rt[w].chan = <<>> /\ rt'[w].pc # "recv" =>
            /\ rt'[w].pc = "check"
            /\ rt'[w].lastCall.hook = "on_tick"
            /\ rt'[w].lastCall.actions = <<>>
            /\ rt'[w].lastCall.players = rt[w].players_cxts
            /\ rt'[w].emitted = rt[w].emitted \o Emitted(rt[w], rt'[w].lastCall.ret)
            /\ \A p \in DOMAIN sessions :
                 DeltasIn(QueueOf(p)', rt[w].type_, rt[w].id)
                    = DeltasIn(QueueOf(p), rt[w].type_, rt[w].id)
                        \o OwedPerNaming(Emitted(rt[w], rt'[w].lastCall.ret), p)]_vars

\* an idle on_tick with an empty action list returned a diff, now in player 1's queue
C10_Witness ==
    /\ rt[1].pc = "check"
    /\ rt[1].lastCall.hook = "on_tick"
    /\ rt[1].lastCall.actions = <<>>
    /\ rt[1].received = <<>>
    /\ rt[1].lastCall.ret = <<DiffAll(1)>>
    /\ rt[1].players_cxts = {1}
    /\ DeltasIn(QueueOf(1), "chat", "r1") = <<1>>


(* C11: a Join or Leave received during a batching window is applied to    *)
(* players at once, its on_join / on_leave hook is called and the diffs it  *)
(* returns are enqueued, before the on_tick that closes the window; the     *)
(* actions buffered so far stay buffered, in their arrival order.           *)
C11_JoinLeaveInWindowImmediate ==
    [][\A w \in DOMAIN rt :
         (/\ rt[w].pc = "window"
          /\ rt[w].chan # <<>>
          /\ rt'[w].chan = Tail(rt[w].chan)
          /\ Head(rt[w].chan).kind \in {"Join", "Leave"}) =>
            LET r == rt[w]
                ev == Head(r.chan)
                known == ev.p \in r.players_cxts
                players == IF ev.kind = "Join" THEN r.players_cxts \cup {ev.p}
                           ELSE r.players_cxts \ {ev.p}
                called == ev.kind = "Join" \/ known
                ret == IF called THEN rt'[w].lastCall.ret ELSE <<>>
                after == [r EXCEPT !.players_cxts = players]
            IN  /\ rt'[w].players_cxts = players
                /\ called => /\ rt'[w].lastCall.hook =
                                   (IF ev.kind = "Join" THEN "on_join" ELSE "on_leave")
                             /\ rt'[w].lastCall.p = ev.p
                             /\ rt'[w].lastCall.players = players
                /\ ~called => rt'[w].lastCall = r.lastCall
                /\ rt'[w].emitted = r.emitted \o Emitted(after, ret)
                /\ \A p \in DOMAIN sessions :
                     DeltasIn(QueueOf(p)', r.type_, r.id)
                        = DeltasIn(QueueOf(p), r.type_, r.id)
                            \o OwedPerNaming(Emitted(after, ret), p)
                /\ rt'[w].actions_buffer = r.actions_buffer
                /\ rt'[w].actions_buffer # <<>>
                /\ rt'[w].ticked = r.ticked
                /\ rt'[w].pc \in {"window", "ontick"}]_vars

\* player 2 joined while an action of player 1 was buffered: on_join was called inside
\* the window and its delta is in player 2's queue, the action still waits for its tick
C11_Witness ==
    /\ rt[1].pc = "window"
    /\ rt[1].lastCall.hook = "on_join"
    /\ rt[1].lastCall.p = 2
    /\ rt[1].lastCall.ret # <<>>
    /\ rt[1].players_cxts = {1, 2}
    /\ rt[1].actions_buffer # <<>>
    /\ rt[1].actions_buffer[1][1] = 1
    /\ rt[1].ticked = <<>>
    /\ DeltasIn(QueueOf(2), "chat", "r1") # <<>>


\* the (player, action) pairs of the Action events of a sequence of events, in its order
RECURSIVE ActionsOf(_)
ActionsOf(evs) ==
    IF evs = <<>> THEN <<>>
    ELSE (IF Head(evs).kind = "Action" THEN <<<<Head(evs).p, Head(evs).data>>>> ELSE <<>>)
            \o ActionsOf(Tail(evs))

\* the worker takes the Join or Leave at the head of its channel in this step, and the
\* event has a hook to call (a Leave of a player it does not hold has none)
TakesJoinOrLeave(w) ==
    /\ rt[w].pc \in {"recv", "window"}
    /\ rt[w].chan # <<>>
    /\ rt'[w].chan = Tail(rt[w].chan)
    /\ \/ Head(rt[w].chan).kind = "Join"
       \/ Head(rt[w].chan).kind = "Leave" /\ Head(rt[w].chan).p \in rt[w].players_cxts

(* C25, as stated: the events one player sent reach the hooks in the order *)
(* the player sent them; so when on_join / on_leave is called for a player *)
(* no Action that player sent before is still waiting for its on_tick.     *)
C25_PerPlayerOrder ==
    [][\A w \in DOMAIN rt : TakesJoinOrLeave(w) =>
          \A i \in DOMAIN rt[w].actions_buffer :
              rt[w].actions_buffer[i][1] # Head(rt[w].chan).p]_vars

(* C25, amended: the Actions sent to a lobby reach on_tick in the order    *)
(* they were sent, and its Joins and Leaves reach on_join / on_leave in the *)
(* order they were sent, each called as the event is taken from the        *)
(* channel; a Join or Leave may overtake the Actions buffered before it.   *)
C25_OrderWithinActionsAndWithinJoins ==
    /\ [](\A w \in DOMAIN rt : rt[w].pc # "done" =>
            /\ rt[w].ticked \o rt[w].actions_buffer \o ActionsOf(rt[w].chan)
                  = ActionsOf(rt[w].sent)
            /\ \E k \in 0..Len(rt[w].sent) :
                  rt[w].chan = SubSeq(rt[w].sent, k + 1, Len(rt[w].sent)))
    /\ [][\A w \in DOMAIN rt :
            /\ TakesJoinOrLeave(w) =>
                 /\ rt'[w].lastCall.hook =
                       (IF Head(rt[w].chan).kind = "Join" THEN "on_join" ELSE "on_leave")
                 /\ rt'[w].lastCall.p = Head(rt[w].chan).p
                 /\ rt'[w].actions_buffer = rt[w].actions_buffer
            /\ (rt[w].pc = "ontick" /\ rt'[w].pc # "ontick") =>
                 /\ rt'[w].lastCall.hook = "on_tick"
                 /\ rt'[w].lastCall.actions = rt[w].actions_buffer
                 /\ rt'[w].actions_buffer = <<>>]_vars

\* player 2 sent an Action and then its Join: on_join(2) was called while the Action
\* still waits in the buffer for the on_tick that closes the window
C25_Witness ==
    /\ rt[1].pc = "window"
    /\ Len(rt[1].sent) = 3
    /\ rt[1].sent[2].kind = "Action" /\ rt[1].sent[2].p = 2
    /\ rt[1].sent[3] = EvJoin(2)
    /\ rt[1].lastCall.hook = "on_join"
    /\ rt[1].lastCall.p = 2
    /\ rt[1].actions_buffer = <<<<2, rt[1].sent[2].data>>>>
    /\ rt[1].ticked = <<>>

\* the worker takes, in this step, a Leave of a player it does not hold
TakesUnknownLeave(w) ==
    /\ rt[w].pc \in {"recv", "window"}
    /\ rt[w].chan # <<>>
    /\ rt'[w].chan = Tail(rt[w].chan)
    /\ Head(rt[w].chan).kind = "Leave"
    /\ Head(rt[w].chan).p \notin rt[w].players_cxts

(* C27: a Leave for a player who is not in the worker's players map is a   *)
(* no-op: no hook is called, players and the hooks' state are unchanged,   *)
(* nothing is emitted or enqueued and the buffered actions are kept.       *)
C27_UnknownLeaveIsNoOp ==
    [][\A w \in DOMAIN rt : TakesUnknownLeave(w) =>
          /\ rt'[w].players_cxts = rt[w].players_cxts
          /\ rt'[w].lastCall = rt[w].lastCall
          /\ rt'[w].hooks = rt[w].hooks
          /\ rt'[w].emitted = rt[w].emitted
          /\ rt'[w].actions_buffer = rt[w].actions_buffer
          /\ outq' = outq]_vars

\* Leave(2) was sent before Join(2); both were taken, and the lobby holds players 1
\* and 2 with on_join(2) as the only hook called since
C27_Witness ==
    /\ Len(rt[1].sent) = 3
    /\ rt[1].sent[2] = EvLeave(2)
    /\ rt[1].sent[3] = EvJoin(2)
    /\ rt[1].chan = <<>>
    /\ rt[1].players_cxts = {1, 2}
    /\ rt[1].lastCall.hook = "on_join"
    /\ rt[1].lastCall.p = 2

(* ------------------------ Spec: the whole server ---------------------- *)
(* Connections are read by one task each; a request is routed to the end   *)
(* before the next one of any connection is looked at (the registry and    *)
(* the session maps are behind locks).  Correlation ids are numbered by    *)
(* the clients, so every request carries one of its own.                   *)

\* a request type no handler was registered for
UnknownType == "nope"
\* the (type, id) pairs requests name
Targets == {<<t, id>> : t \in Types, id \in LobbyIds} \cup {<<UnknownType, "r1">>}
\* Create requests as <<type, id, options>>: options absent, decodable, not decodable
CreateRequests ==
    {<<"chat", "r1", o>> : o \in {"none", "quiet", "bad"}}
        \cup {<<t[1], t[2], "none">> : t \in Targets}
\* Action requests as <<type, id, whether data decodes as H::Action>>
ActionRequests ==
    {<<"chat", "r1", FALSE>>} \cup {<<t[1], t[2], TRUE>> : t \in Targets}
\* the connections that may present player id p
ConnsOf(p) == {c \in Conns : p <= c}

\* HashMap::insert / HashMap::remove
Put(m, k, v) == [x \in DOMAIN m \cup {k} |-> IF x = k THEN v ELSE m[x]]
Without(m, k) == [x \in DOMAIN m \ {k} |-> m[x]]

NextCorrelationId == ToString(routed.n + 1)

\* the router's record after one more request
Routed(req) == [n |-> routed.n + 1, last |-> req]

Request(method, c, cid, type_, id, decodes) ==
    [method |-> method, c |-> c, correlation_id |-> cid, type_ |-> type_, id |-> id,
     known |-> type_ \in DOMAIN handlers /\ id \in DOMAIN handlers[type_],
     decodes |-> decodes]

\* SessionManager::subscribe on a map that holds player_id
Subscribe(subs, player_id, type_, id) ==
    [subs EXCEPT ![player_id] =
        IF type_ \in DOMAIN @ THEN [@ EXCEPT ![type_] = Append(@, id)]
        ELSE Put(@, type_, <<id>>)]

\* subscribe panics on a player without an entry, holding the write lock
SubscribePanics(player_id) == ~poisoned /\ player_id \notin DOMAIN subscriptions

\* the task of connection c dies in subscribe and leaves the lock poisoned
PanicInSubscribe(c, req) ==
    /\ conn' = [conn EXCEPT ![c].st = "panicked"]
    /\ poisoned' = TRUE
    /\ routed' = Routed(req)
    /\ UNCHANGED <<sessions, outq, subscriptions, handlers, rt, rx_dropped, replyVars>>

\* connect: the first frame of connection c is Connect { correlation_id, id }
Connect(c, p) ==
    /\ conn[c].st = "new"
    /\ conn' = [conn EXCEPT ![c] = [st |-> "open", p_id |-> p]]
    /\ outq' = [outq EXCEPT ![c] = Append(@, ConnectAck("0", TRUE))]
    /\ sessions' = Put(sessions, p, c)
    /\ subscriptions' = IF poisoned THEN subscriptions ELSE Put(subscriptions, p, <<>>)
    /\ UNCHANGED <<handlers, rt, routed, poisoned, rx_dropped, replyVars>>

\* a refusal that still registers a session for the connection
ConnectRefusedWithSession(c) ==
    /\ conn[c].st = "new"
    /\ conn' = [conn EXCEPT ![c].st = "refused"]
    /\ sessions' = Put(sessions, c, c)
    /\ UNCHANGED <<outq, subscriptions, handlers, rt, routed, poisoned, rx_dropped, replyVars>>

\* connect on a first frame that does not decode or is not a Connect: the caller gets
\* Err(MessageNotConnected), SessionManager::connect is never called, and the task of
\* the connection returns without reading another frame
ConnectRefused(c) ==
    /\ conn[c].st = "new"
    /\ conn' = [conn EXCEPT ![c].st = "refused"]
    /\ UNCHANGED <<sessions, outq, subscriptions, handlers, rt, routed, poisoned, rx_dropped, replyVars>>

\* GameRuntimeHandle::register: build, start, send Join, insert the handle; the handle
\* the insert replaces is dropped, and with it the Sender of the worker it led to
Register(rts, hs, p, type_, id, options) ==
    LET old == IF id \in DOMAIN hs THEN {hs[id]} ELSE {}
        kept == [w \in DOMAIN rts |->
                    IF w \in old THEN [rts[w] EXCEPT !.connected = FALSE] ELSE rts[w]]
    IN  [rt |-> Append(kept, HandleSend(RuntimeStart(type_, id, options), EvJoin(p))),
         handlers |-> Put(hs, id, Len(rts) + 1)]

\* process_message, InputMessage::Create arm
Create(c, type_, id, options) ==
    /\ conn[c].st = "open"
    /\ routed.n < MaxReqs
    /\ LET p == conn[c].p_id
           cid == NextCorrelationId
           req == Request("create", c, cid, type_, id, options # "bad")
       IN  IF type_ \notin DOMAIN handlers
           THEN /\ outq' = Send(outq, p, GenericError)
                /\ routed' = Routed(req)
                /\ UNCHANGED <<conn, sessions, subscriptions, handlers, rt, poisoned, rx_dropped, replyVars>>
           ELSE IF SubscribePanics(p)
           THEN PanicInSubscribe(c, req)
           ELSE /\ subscriptions' = IF poisoned THEN subscriptions
                                    ELSE Subscribe(subscriptions, p, type_, id)
                /\ IF options = "bad"
                   THEN /\ outq' = Send(Send(outq, p, GenericError), p, CreateAck(cid, TRUE))
                        /\ UNCHANGED <<handlers, rt>>
                   ELSE LET reg == Register(rt, handlers[type_], p, type_, id, options) IN
                        /\ rt' = reg.rt
                        /\ handlers' = [handlers EXCEPT ![type_] = reg.handlers]
                        /\ outq' = Send(outq, p, CreateAck(cid, TRUE))
                /\ routed' = Routed(req)
                /\ UNCHANGED <<conn, sessions, poisoned, rx_dropped, replyVars>>

\* process_message, InputMessage::Join arm
Join(c, type_, id) ==
    /\ conn[c].st = "open"
    /\ routed.n < MaxReqs
    /\ LET p == conn[c].p_id
           cid == NextCorrelationId
           req == Request("join", c, cid, type_, id, TRUE)
       IN  IF type_ \notin DOMAIN handlers
           THEN /\ outq' = Send(outq, p, GenericError)
                /\ routed' = Routed(req)
                /\ UNCHANGED <<conn, sessions, subscriptions, handlers, rt, poisoned, rx_dropped, replyVars>>
           ELSE IF SubscribePanics(p)
           THEN PanicInSubscribe(c, req)
           ELSE /\ subscriptions' = IF poisoned THEN subscriptions
                                    ELSE Subscribe(subscriptions, p, type_, id)
                /\ rt' = IF id \in DOMAIN handlers[type_]
                         THEN [rt EXCEPT ![handlers[type_][id]] = HandleSend(@, EvJoin(p))]
                         ELSE rt
                /\ outq' = Send(outq, p, JoinAck(cid, TRUE))
                /\ routed' = Routed(req)
                /\ UNCHANGED <<conn, sessions, handlers, poisoned, rx_dropped, replyVars>>

\* process_message, InputMessage::Action arm; decodes tells whether data decodes as H::Action
Action(c, type_, id, decodes) ==
    /\ conn[c].st = "open"
    /\ routed.n < MaxReqs
    /\ LET p == conn[c].p_id
           req == Request("action", c, "", type_, id, decodes)
       IN  /\ rt' = IF req.known /\ decodes
                    THEN [rt EXCEPT ![handlers[type_][id]] =
                             HandleSend(@, EvAction(p, routed.n + 1))]
                    ELSE rt
           /\ routed' = Routed(req)
    /\ UNCHANGED <<conn, sessions, outq, subscriptions, handlers, poisoned, rx_dropped, replyVars>>

\* process_message on a frame that does not decode as an InputMessage
Undecodable(c) ==
    /\ conn[c].st = "open"
    /\ routed.n < MaxReqs
    /\ outq' = Send(outq, conn[c].p_id, GenericError)
    /\ routed' = Routed(Request("undecodable", c, "", "", "", FALSE))
    /\ UNCHANGED <<conn, sessions, subscriptions, handlers, rt, poisoned, rx_dropped, replyVars>>

\* for room_id in room_ids { handler.leave(p_id, room_id) }
RECURSIVE LeaveEach(_, _, _, _)
LeaveEach(rts, hs, p, room_ids) ==
    IF room_ids = <<>> THEN rts
    ELSE LET room_id == Head(room_ids)
             next == IF room_id \in DOMAIN hs
                     THEN [rts EXCEPT ![hs[room_id]] = HandleSend(@, EvLeave(p))]
                     ELSE rts
         IN  LeaveEach(next, hs, p, Tail(room_ids))

\* for (room_type, room_ids) in subscriptions { ... }: the types lead to disjoint workers,
\* so the order the HashMap yields them in is not observable
RECURSIVE LeaveAll(_, _, _)
LeaveAll(rts, p, subs) ==
    IF DOMAIN subs = {} THEN rts
    ELSE LET room_type == CHOOSE t \in DOMAIN subs : TRUE IN
         LeaveAll(LeaveEach(rts, handlers[room_type], p, subs[room_type]), p,
                  Without(subs, room_type))

\* disconnect: the connection ended; unsubscribe_all panics on a poisoned lock
Disconnect(c) ==
    /\ conn[c].st = "open"
    /\ LET p == conn[c].p_id IN
       IF poisoned
       THEN /\ conn' = [conn EXCEPT ![c].st = "panicked"]
            /\ UNCHANGED <<subscriptions, rt>>
       ELSE /\ conn' = [conn EXCEPT ![c].st = "closed"]
            /\ subscriptions' = Without(subscriptions, p)
            /\ rt' = IF p \in DOMAIN subscriptions
                     THEN LeaveAll(rt, p, subscriptions[p])
                     ELSE rt
    /\ UNCHANGED <<sessions, outq, handlers, routed, poisoned, rx_dropped, replyVars>>

Init ==
    /\ conn = [c \in Conns |-> [st |-> "new", p_id |-> 0]]
    /\ sessions = <<>>
    /\ outq = [c \in Conns |-> <<>>]
    /\ subscriptions = <<>>
    /\ handlers = [t \in Types |-> <<>>]
    /\ rt = <<>>
    /\ routed = NoRequestYet
    /\ poisoned = FALSE
    /\ rx_dropped = {}
    /\ ReplyIdle

Next ==
    \/ \E p \in PlayerIds : \E c \in ConnsOf(p) : Connect(c, p)
    \/ \E c \in Conns : ConnectRefused(c)
    \/ \E c \in Conns, q \in CreateRequests : Create(c, q[1], q[2], q[3])
    \/ \E c \in Conns, t \in Targets : Join(c, t[1], t[2])
    \/ \E c \in Conns, q \in ActionRequests : Action(c, q[1], q[2], q[3])
    \/ \E c \in Conns : Undecodable(c)
    \/ \E c \in Conns : Disconnect(c)
    \/ \E w \in DOMAIN rt : WorkerStep(w)
    \/ Advance

Spec == Init /\ [][Next]_vars


(* ------------------------ claims about the server --------------------- *)

\* the connections that presented player id p and are in one of the states sts
ConnsIn(p, sts) == {c \in Conns : conn[c].p_id = p /\ conn[c].st \in sts}

(* C1: a Create naming a (lobby type, lobby id) that already has a handle   *)
(* in that type's registry is answered CreateAck{success:false} for its     *)
(* correlation id, and not CreateAck{success:true}.                         *)
C1_DuplicateCreateRefused ==
    LET req == routed.last IN
    (req.method = "create" /\ req.known /\ conn[req.c].st = "open"
        /\ sessions[conn[req.c].p_id] = req.c) =>
        /\ CreateAck(req.correlation_id, FALSE) \in Range(outq[req.c])
        /\ CreateAck(req.correlation_id, TRUE) \notin Range(outq[req.c])

(* C2: a Create for an id the registry already holds leaves the lobby       *)
(* untouched: the registry still maps the id to the same worker, no worker  *)
(* is started, and the players of the original worker are unchanged.        *)
C2_DuplicateCreateLeavesLobby ==
    [][(routed'.n = routed.n + 1 /\ routed'.last.method = "create" /\ routed'.last.known) =>
          LET type_ == routed'.last.type_
              id == routed'.last.id
              w == handlers[type_][id]
          IN  /\ handlers'[type_][id] = w
              /\ Len(rt') = Len(rt)
              /\ rt'[w].connected = rt[w].connected
              /\ rt'[w].players_cxts = rt[w].players_cxts]_vars

(* C3: once the disconnect sweep of player p ran, every lobby worker that   *)
(* was sent a Join(p) by p's Create or Join requests has been sent exactly  *)
(* one Leave(p); and no Leave is sent for a player who did not disconnect.  *)
C3_OneLeavePerJoinedLobby ==
    \A p \in PlayerIds : \A w \in DOMAIN rt :
        /\ (ConnsIn(p, {"open", "panicked"}) = {} /\ Cardinality(ConnsIn(p, {"closed"})) = 1
              /\ Count(rt[w].sent, EvJoin(p)) > 0)
             => Count(rt[w].sent, EvLeave(p)) = 1
        /\ ConnsIn(p, {"closed"}) = {} => Count(rt[w].sent, EvLeave(p)) = 0

\* this step routed a request of the given method, and its connection's task lives on
RoutedStep(method) ==
    /\ routed'.n = routed.n + 1
    /\ routed'.last.method = method
    /\ conn'[routed'.last.c].st = "open"

(* C12: a Join for a lobby id the registry of a registered type does not    *)
(* hold delivers no event to any worker, and the server answers             *)
(* JoinAck{success:false} for the Join's correlation id.                    *)
C12_JoinUnknownLobbyRefused ==
    [][(/\ RoutedStep("join")
        /\ routed'.last.type_ \in DOMAIN handlers
        /\ ~routed'.last.known) =>
          /\ rt' = rt
          /\ outq' = Send(outq, conn[routed'.last.c].p_id,
                          JoinAck(routed'.last.correlation_id, FALSE))]_vars

\* the Ack of a correlated request
AckOf(req, ok) ==
    IF req.method = "create" THEN CreateAck(req.correlation_id, ok)
    ELSE JoinAck(req.correlation_id, ok)

(* C13: a Create or Join naming a lobby type that was never registered is   *)
(* answered with the matching Ack{success:false} carrying the request's     *)
(* correlation id, and no subscription is recorded.                         *)
C13_UnknownTypeRefusedWithAck ==
    [][((RoutedStep("create") \/ RoutedStep("join"))
           /\ routed'.last.type_ \notin DOMAIN handlers) =>
          /\ subscriptions' = subscriptions
          /\ outq' = Send(outq, conn[routed'.last.c].p_id, AckOf(routed'.last, FALSE))]_vars

(* C14: when the options of a Create do not decode the create is refused:   *)
(* no lobby worker is started, the registry gains no entry, and the server  *)
(* answers CreateAck{success:false}.                                        *)
C14_UndecodableOptionsRefused ==
    [][(/\ RoutedStep("create")
        /\ routed'.last.type_ \in DOMAIN handlers
        /\ ~routed'.last.decodes) =>
          LET q == outq'[sessions[conn[routed'.last.c].p_id]] IN
          /\ rt' = rt
          /\ handlers' = handlers
          /\ CreateAck(routed'.last.correlation_id, FALSE) \in Range(q)
          /\ CreateAck(routed'.last.correlation_id, TRUE) \notin Range(q)]_vars

(* C15: when the data of an Action does not decode, a GenericError is       *)
(* enqueued to the sending player's session and to no one else, and no      *)
(* event reaches the lobby worker.                                          *)
C15_UndecodableActionReported ==
    [][(/\ RoutedStep("action")
        /\ routed'.last.type_ \in DOMAIN handlers
        /\ ~routed'.last.decodes) =>
          /\ rt' = rt
          /\ outq' = Send(outq, conn[routed'.last.c].p_id, GenericError)]_vars

(* C16: subscribe(player_id, type, id) is idempotent: a second call with    *)
(* the same triple leaves the player's subscription set unchanged, so a     *)
(* lobby id appears at most once in the list of its type.                   *)
C16_SubscribeIdempotent ==
    \A p \in DOMAIN subscriptions :
        /\ \A t \in DOMAIN subscriptions[p] : \A id \in LobbyIds :
              Count(subscriptions[p][t], id) <= 1
        /\ \A t \in Types : \A id \in LobbyIds :
              LET once == Subscribe(subscriptions, p, t, id) IN
              Subscribe(once, p, t, id) = once

\* the disconnect sweep of p ran and no connection presenting p is left
Swept(p) == ConnsIn(p, {"closed"}) # {} /\ ConnsIn(p, {"open", "panicked"}) = {}

(* C17: unsubscribe_all(player_id) removes the player's subscription set    *)
(* and the player's session: after the sweep neither map has an entry for   *)
(* the player, and a later send to the player enqueues nothing.             *)
C17_SweepRemovesSession ==
    /\ [](\A p \in PlayerIds :
            Swept(p) => p \notin DOMAIN subscriptions /\ p \notin DOMAIN sessions)
    /\ [][\A c \in Conns : conn[c].st = "closed" => outq'[c] = outq[c]]_vars

\* this step is the Connect of connection c
ConnectStep(c) == conn[c].st = "new" /\ conn'[c].st = "open"

(* C18: no two live sessions share a player id: the player id of each live  *)
(* connection maps to that connection's own outbound queue, and a Connect   *)
(* with an id already in use neither replaces the first session's queue     *)
(* nor resets its subscription set.                                         *)
C18_NoSharedPlayerId ==
    /\ [](\A c \in Conns : conn[c].st = "open" => sessions[conn[c].p_id] = c)
    /\ [][\A c \in Conns :
            (ConnectStep(c) /\ ConnsIn(conn'[c].p_id, {"open"}) # {}) =>
                LET p == conn'[c].p_id IN
                /\ sessions'[p] = sessions[p]
                /\ p \in DOMAIN subscriptions =>
                     (p \in DOMAIN subscriptions' /\ subscriptions'[p] = subscriptions[p])]_vars

\* connection c is refused by this step
RefusedStep(c) == conn[c].st = "new" /\ conn'[c].st = "refused"

(* C19: a Create, Join or Action is routed only for a connection whose      *)
(* Connect has succeeded (it is open and its player has a session); a first *)
(* frame that is not a decodable Connect creates no session and no          *)
(* subscription set and reaches no worker, and a refused connection routes  *)
(* nothing, receives nothing and owns no session from then on.              *)
C19_NothingRoutedBeforeConnect ==
    /\ [](\A c \in Conns : conn[c].st \in {"new", "refused"} =>
            /\ outq[c] = <<>>
            /\ \A p \in DOMAIN sessions : sessions[p] # c
            /\ routed.n > 0 => routed.last.c # c)
    /\ [][/\ routed'.n = routed.n + 1 =>
                /\ conn[routed'.last.c].st = "open"
                /\ conn[routed'.last.c].p_id \in DOMAIN sessions
           /\ \A c \in Conns :
                /\ RefusedStep(c) =>
                     /\ sessions' = sessions
                     /\ subscriptions' = subscriptions
                     /\ handlers' = handlers
                     /\ rt' = rt
                     /\ routed' = routed
                /\ conn[c].st = "refused" => conn'[c] = conn[c]]_vars

C19_Witness ==
    /\ \E c \in Conns : conn[c].st = "refused"
    /\ routed.n > 0
    /\ routed.last.method \in {"create", "join", "action"}
    /\ conn[routed.last.c].st = "open"

(* ---------------- SpecThree: the server with a third connection -------- *)

\* one connection more than Conns: a client that arrives while, or after, the others
\* are served
ThreeConns == Conns \cup {Cardinality(Conns) + 1}

InitThree ==
    /\ conn = [c \in ThreeConns |-> [st |-> "new", p_id |-> 0]]
    /\ sessions = <<>>
    /\ outq = [c \in ThreeConns |-> <<>>]
    /\ subscriptions = <<>>
    /\ handlers = [t \in Types |-> <<>>]
    /\ rt = <<>>
    /\ routed = NoRequestYet
    /\ poisoned = FALSE
    /\ rx_dropped = {}
    /\ ReplyIdle

NextThree ==
    \/ \E p \in PlayerIds : \E c \in ThreeConns : p <= c /\ Connect(c, p)
    \/ \E c \in ThreeConns : ConnectRefused(c)
    \/ \E c \in ThreeConns, q \in CreateRequests : Create(c, q[1], q[2], q[3])
    \/ \E c \in ThreeConns, t \in Targets : Join(c, t[1], t[2])
    \/ \E c \in ThreeConns, q \in ActionRequests : Action(c, q[1], q[2], q[3])
    \/ \E c \in ThreeConns : Undecodable(c)
    \/ \E c \in ThreeConns : Disconnect(c)
    \/ \E w \in DOMAIN rt : WorkerStep(w)
    \/ Advance

SpecThree == InitThree /\ [][NextThree]_vars

(* C20: connect inserts the session of the player with an empty             *)
(* subscription set, and the ConnectAck{success:true} carrying the          *)
(* correlation id of the Connect is the first message of the outbound queue *)
(* it returns, ahead of every CreateAck, JoinAck and Diff for that player.  *)
C20_ConnectInsertsSessionAckFirst ==
    /\ [](\A c \in ThreeConns : outq[c] # <<>> =>
            /\ Head(outq[c]) = ConnectAck("0", TRUE)
            /\ \A i \in 2..Len(outq[c]) : outq[c][i].method # "connect")
    /\ [][\A c \in ThreeConns : ConnectStep(c) =>
            LET p == conn'[c].p_id IN
            /\ p \in DOMAIN sessions' /\ sessions'[p] = c
            /\ outq'[c] = <<ConnectAck("0", TRUE)>>
            /\ p \in DOMAIN subscriptions' /\ subscriptions'[p] = <<>>]_vars

(* ------------- SpecGames: the client's Active Games -------------------- *)
(* ThundersClient::create / join insert the local instance and send the    *)
(* request; the task of WebSocketClientProtocol::run takes the acks and    *)
(* the Diffs the server sends.                                             *)

\* number of create / join calls the client makes
MaxCalls == 2
\* number of changes one instance is handed
MaxChanges == 2

\* payloads of a Diff: one that decodes as G::Change and one that does not
DiffData == {"d", "bad"}

\* the instance create / join puts into Active Games
NewGame == [changes |-> <<>>]

NoCall == [n |-> 0, answer |-> "none"]

RECURSIVE TotalCalls(_, _)
TotalCalls(cs, ks) ==
    IF ks = {} THEN 0
    ELSE LET k == CHOOSE x \in ks : TRUE IN cs[k].n + TotalCalls(cs, ks \ {k})

\* GenericGameState::on_change: the change is applied when it deserializes
OnChange(game, change) ==
    IF change = "bad" THEN game ELSE [game EXCEPT !.changes = Append(@, change)]

\* ActiveGames::create: Err on a type the client did not register, else HashMap::insert
GamesCreate(games, type_, id, game) ==
    IF type_ \notin Types THEN games ELSE Put(games, <<type_, id>>, game)

\* ActiveGames::route_message: Err on an unknown type or id, else on_change
RouteMessage(games, type_, id, message) ==
    IF type_ \notin Types \/ <<type_, id>> \notin DOMAIN games THEN games
    ELSE [games EXCEPT ![<<type_, id>>] = OnChange(@, message)]

\* mutant: the Diff arm routes every Diff and never looks at finished
OnDiffRouteOnly(games, fin, type_, id, finished, data) ==
    [games |-> RouteMessage(games, type_, id, data), fin |-> fin]

\* the Diff arm of the select loop: remove and on_finished, or route_message
OnDiff(games, fin, type_, id, finished, data) ==
    IF finished
    THEN IF type_ \in Types /\ <<type_, id>> \in DOMAIN games
         THEN [games |-> Without(games, <<type_, id>>),
               fin |-> [fin EXCEPT ![<<type_, id>>] = @ + 1]]
         ELSE [games |-> games, fin |-> fin]
    ELSE [games |-> RouteMessage(games, type_, id, data), fin |-> fin]

\* ThundersClient::create and ThundersClient::join: insert the instance, send the request
ClientCall(type_, id) ==
    /\ TotalCalls(calls, Targets) < MaxCalls
    /\ active_games' = GamesCreate(active_games, type_, id, NewGame)
    /\ calls' = [calls EXCEPT ![<<type_, id>>] = [n |-> @.n + 1, answer |-> "sent"]]
    /\ UNCHANGED <<running, on_finish_calls, replies_registry, registered_timeouts,
                   delivered, pushing, rclock, vac, codec, serverVars>>

\* the Create / Join arms of the select loop on the ack that answers the call for
\* (type_, id): reply_manager.ok or error on a correlation id nothing was registered under
RecvAck(type_, id, success) ==
    /\ running
    /\ calls[<<type_, id>>].answer = "sent"
    /\ calls' = [calls EXCEPT ![<<type_, id>>].answer = IF success THEN "ok" ELSE "refused"]
    /\ UNCHANGED <<running, active_games, on_finish_calls, replies_registry,
                   registered_timeouts, delivered, pushing, rclock, vac, codec, serverVars>>

\* the Diff arm of the select loop
RecvDiff(type_, id, finished, data) ==
    /\ running
    /\ (~finished /\ <<type_, id>> \in DOMAIN active_games) =>
           Len(active_games[<<type_, id>>].changes) < MaxChanges
    /\ LET r == OnDiff(active_games, on_finish_calls, type_, id, finished, data) IN
       /\ active_games' = r.games
       /\ on_finish_calls' = r.fin
    /\ UNCHANGED <<running, calls, replies_registry, registered_timeouts, delivered,
                   pushing, rclock, vac, codec, serverVars>>

InitGames ==
    /\ running = TRUE
    /\ active_games = <<>>
    /\ calls = [k \in Targets |-> NoCall]
    /\ on_finish_calls = [k \in Targets |-> 0]
    /\ codec = <<>>
    /\ replies_registry = <<>>
    /\ registered_timeouts = {}
    /\ delivered = <<>>
    /\ pushing = {}
    /\ rclock = 0
    /\ vac = [t \in VacCallers |-> VacuumIdle]
    /\ ServerIdle

NextGames ==
    \/ \E k \in Targets : ClientCall(k[1], k[2])
    \/ \E k \in Targets, success \in BOOLEAN : RecvAck(k[1], k[2], success)
    \/ \E k \in Targets, finished \in BOOLEAN, data \in DiffData :
          RecvDiff(k[1], k[2], finished, data)
    \/ LoopStop

SpecGames == InitGames /\ [][NextGames]_vars

(* C23: when a client create or join fails, the instance inserted locally  *)
(* for that (type, id) before sending is rolled back: once the call was    *)
(* refused, Active Games has no entry for that (type, id).                 *)
C23_FailedCallRolledBack ==
    \A k \in Targets : calls[k].answer = "refused" => k \notin DOMAIN active_games

(* C24: an inbound Diff with finished:true removes the instance of that    *)
(* (type, id) from Active Games and calls on_finish on it exactly once; a  *)
(* Diff for that (type, id) arriving afterwards is applied to no instance; *)
(* instances of other (type, id) pairs are unchanged.                      *)
C24_FinishedDiffRemovesOnce ==
    /\ [](\A k \in Targets, data \in DiffData :
            LET r == OnDiff(active_games, on_finish_calls, k[1], k[2], TRUE, data) IN
            /\ k \notin DOMAIN r.games
            /\ r.fin[k] = on_finish_calls[k] + (IF k \in DOMAIN active_games THEN 1 ELSE 0)
            /\ \A j \in Targets \ {k} :
                 /\ r.fin[j] = on_finish_calls[j]
                 /\ j \in DOMAIN r.games <=> j \in DOMAIN active_games
                 /\ j \in DOMAIN active_games => r.games[j] = active_games[j]
            /\ \A finished \in BOOLEAN, later \in DiffData :
                 OnDiff(r.games, r.fin, k[1], k[2], finished, later) = r)
    /\ [][\A k \in Targets :
            /\ on_finish_calls'[k] # on_finish_calls[k] =>
                 /\ on_finish_calls'[k] = on_finish_calls[k] + 1
                 /\ k \in DOMAIN active_games /\ k \notin DOMAIN active_games'
            /\ (running /\ k \in DOMAIN active_games /\ k \notin DOMAIN active_games') =>
                 on_finish_calls'[k] = on_finish_calls[k] + 1]_vars

\* the instance of ("chat", "r1") was finished once and is gone, the one of
\* ("chat", "r2") has taken a change and is still held
C24_Witness ==
    /\ on_finish_calls[<<"chat", "r1">>] = 1
    /\ <<"chat", "r1">> \notin DOMAIN active_games
    /\ <<"chat", "r2">> \in DOMAIN active_games
    /\ active_games[<<"chat", "r2">>].changes = <<"d">>


(* ------------------------ SpecCodec: input envelopes through the Json schema *)
(* Serialize<Json> and Deserialize<Json> for InputMessage.  A string is a    *)
(* sequence of characters, an options or data payload is a sequence of the   *)
(* bytes of a JSON text, and the wire text is kept as its fields: the        *)
(* characters of each string between its quotes, the text of each payload.   *)

MaxStr == 2

\* strings of the characters a and ", at most MaxStr long
Strs == UNION {[1..n -> {"a", "\""}] : n \in 1..MaxStr}

\* payload bytes: the JSON text 1 with or without whitespace around it
JsonTexts == {<<"1">>, <<" ", "1">>, <<"1", " ">>}
None == [some |-> FALSE]
Some(b) == [some |-> TRUE, bytes |-> b]

InputMessages ==
    [method : {"connect"}, correlation_id : Strs, id : {7}]
    \cup [method : {"create"}, correlation_id : Strs, type_ : Strs, id : Strs,
          options : {None} \cup {Some(b) : b \in JsonTexts \cup {<<>>}}]
    \cup [method : {"join"}, correlation_id : Strs, type_ : Strs, id : Strs]
    \cup [method : {"action"}, type_ : Strs, id : Strs, data : JsonTexts \cup {<<>>}]

\* serde_json::from_slice::<Value> accepts the bytes
IsJson(b) == Len(SelectSeq(b, LAMBDA c : c # " ")) = 1

\* Value::to_string of the parsed payload: no insignificant whitespace
ValueToString(b) == SelectSeq(b, LAMBDA c : c # " ")

\* a string between its quotes as serde_json writes it: quote and backslash escaped
RECURSIVE Escaped(_)
Escaped(s) ==
    IF s = <<>> THEN <<>>
    ELSE (IF Head(s) \in {"\"", "\\"} THEN <<"\\", Head(s)>> ELSE <<Head(s)>>)
         \o Escaped(Tail(s))

\* Serialize<Json> for InputMessage: the fields of the flat object, or a panic of
\* expect("Should always be serializable") on a payload that is no JSON text
Panicked == [panicked |-> TRUE]
Wire(fields) == [panicked |-> FALSE, fields |-> fields]
Serialize(m) ==
    CASE m.method = "connect" ->
           Wire([method |-> Escaped(<<"connect">>),
                 correlation_id |-> Escaped(m.correlation_id),
                 p_id |-> m.id])
      [] m.method = "create" ->
           IF ~m.options.some
           THEN Wire([method |-> Escaped(<<"create">>),
                      correlation_id |-> Escaped(m.correlation_id),
                      type |-> Escaped(m.type_),
                      id |-> Escaped(m.id)])
           ELSE IF ~IsJson(m.options.bytes) THEN Panicked
           ELSE Wire([method |-> Escaped(<<"create">>),
                      correlation_id |-> Escaped(m.correlation_id),
                      type |-> Escaped(m.type_),
                      id |-> Escaped(m.id),
                      options |-> ValueToString(m.options.bytes)])
      [] m.method = "join" ->
           Wire([method |-> Escaped(<<"join">>),
                 correlation_id |-> Escaped(m.correlation_id),
                 type |-> Escaped(m.type_),
                 id |-> Escaped(m.id)])
      [] m.method = "action" ->
           IF m.data = <<>>
           THEN Wire([method |-> Escaped(<<"action">>),
                      type |-> Escaped(m.type_),
                      id |-> Escaped(m.id)])
           ELSE IF ~IsJson(m.data) THEN Panicked
           ELSE Wire([method |-> Escaped(<<"action">>),
                      type |-> Escaped(m.type_),
                      id |-> Escaped(m.id),
                      data |-> ValueToString(m.data)])

\* map.next_value::<&str>(): a string is borrowed from the buffer, which only a
\* string written without escapes allows
Borrowable(w) == \A i \in 1..Len(w) : w[i] # "\\"

DeserializationFailure == [ok |-> FALSE]
Decoded(m) == [ok |-> TRUE, msg |-> m]

\* Deserialize<Json> for InputMessage on the fields of a flat object
Deserialize(f) ==
    LET has(k) == k \in DOMAIN f
        strs == DOMAIN f \cap {"method", "correlation_id", "type", "id"}
    IN
    IF \E k \in strs : ~Borrowable(f[k]) THEN DeserializationFailure
    ELSE IF ~has("method") THEN DeserializationFailure
    ELSE CASE f.method = <<"connect">> ->
                IF has("p_id") /\ has("correlation_id")
                THEN Decoded([method |-> "connect", correlation_id |-> f.correlation_id,
                              id |-> f.p_id])
                ELSE DeserializationFailure
           [] f.method = <<"create">> ->
                IF has("correlation_id") /\ has("type") /\ has("id")
                THEN Decoded([method |-> "create", correlation_id |-> f.correlation_id,
                              type_ |-> f.type, id |-> f.id,
                              options |-> IF has("options") THEN Some(f.options) ELSE None])
                ELSE DeserializationFailure
           [] f.method = <<"join">> ->
                IF has("correlation_id") /\ has("type") /\ has("id")
                THEN Decoded([method |-> "join", correlation_id |-> f.correlation_id,
                              type_ |-> f.type, id |-> f.id])
                ELSE DeserializationFailure
           [] f.method = <<"action">> ->
                IF has("type") /\ has("id")
                THEN Decoded([method |-> "action", type_ |-> f.type, id |-> f.id,
                              data |-> IF has("data") THEN f.data ELSE <<>>])
                ELSE DeserializationFailure
           [] OTHER -> DeserializationFailure

\* a sender serializes the envelope it holds
CodecSerialize ==
    /\ codec.pc = "msg"
    /\ codec' = [codec EXCEPT !.pc = "wire", !.wire = Serialize(codec.msg)]
    /\ UNCHANGED <<running, active_games, calls, on_finish_calls, replies_registry,
                   registered_timeouts, delivered, pushing, rclock, vac, serverVars>>

\* the receiver deserializes the text it was sent
CodecDeserialize ==
    /\ codec.pc = "wire"
    /\ ~codec.wire.panicked
    /\ codec' = [codec EXCEPT !.pc = "done", !.out = Deserialize(codec.wire.fields)]
    /\ UNCHANGED <<running, active_games, calls, on_finish_calls, replies_registry,
                   registered_timeouts, delivered, pushing, rclock, vac, serverVars>>

InitCodec ==
    /\ \E m \in InputMessages :
         codec = [pc |-> "msg", msg |-> m, wire |-> Panicked, out |-> DeserializationFailure]
    /\ running = TRUE
    /\ active_games = <<>>
    /\ calls = <<>>
    /\ on_finish_calls = <<>>
    /\ replies_registry = <<>>
    /\ registered_timeouts = {}
    /\ delivered = <<>>
    /\ pushing = {}
    /\ rclock = 0
    /\ vac = [t \in VacCallers |-> VacuumIdle]
    /\ ServerIdle

NextCodec ==
    \/ CodecSerialize
    \/ CodecDeserialize

SpecCodec == InitCodec /\ [][NextCodec]_vars

\* an envelope the sender can serialize: its payload, if it has one, is a JSON text
ValidEnvelope(m) ==
    /\ m.method = "create" /\ m.options.some => IsJson(m.options.bytes)
    /\ m.method = "action" /\ m.data # <<>> => IsJson(m.data)

\* C26: for every valid input envelope E, decoding the encoding of E yields E again
C26_RoundTrip ==
    (codec.pc = "done" /\ ValidEnvelope(codec.msg)) => codec.out = Decoded(codec.msg)


\* the handle of worker w was sent Join(p)
SentJoin(w, p) == \E i \in DOMAIN rt[w].sent : rt[w].sent[i] = EvJoin(p)

\* (type_, id) is in the subscription set of player p
Subscribed(p, type_, id) ==
    /\ p \in DOMAIN subscriptions
    /\ type_ \in DOMAIN subscriptions[p]
    /\ \E i \in DOMAIN subscriptions[p][type_] : subscriptions[p][type_][i] = id

(* C28: the router subscribes before the Join is enqueued and acks after;  *)
(* hence whenever a worker was sent Join(p) and no connection of p has     *)
(* ended, the worker's (type, id) is in p's subscription set.              *)
C28_JoinedWhileConnectedIsSubscribed ==
    \A w \in DOMAIN rt : \A p \in PlayerIds :
        (SentJoin(w, p) /\ ConnsIn(p, {"closed", "panicked"}) = {}) =>
            Subscribed(p, rt[w].type_, rt[w].id)


(* C29: a player's subscription set only contains lobbies whose worker was *)
(* sent that player's Join; a Create or Join that fails leaves none behind. *)
C29_SubscribedOnlyWhereJoined ==
    \A p \in DOMAIN subscriptions : \A t \in DOMAIN subscriptions[p] :
        \A i \in DOMAIN subscriptions[p][t] :
            \E w \in DOMAIN rt : /\ rt[w].type_ = t
                                 /\ rt[w].id = subscriptions[p][t][i]
                                 /\ SentJoin(w, p)


(* C30: when a lobby worker exits on finish its id is removed from the     *)
(* type's registry map: no entry of the registry leads to a worker that    *)
(* has exited.                                                             *)
C30_FinishedLobbyLeavesRegistry ==
    \A w \in DOMAIN rt :
        rt[w].pc = "done" =>
            ~(/\ rt[w].id \in DOMAIN handlers[rt[w].type_]
              /\ handlers[rt[w].type_][rt[w].id] = w)


\* what the thread of a runtime owns: the hooks, the players map, the buffer, its position
OwnedByWorker(r) ==
    <<r.hooks, r.lastCall, r.players_cxts, r.actions_buffer, r.emitted, r.ticked, r.pc>>

\* a connection task took this step: it routed a request or its connection changed state
ConnectionTaskStep == routed' # routed \/ conn' # conn

(* C31: each GameHooks instance is read and mutated only by the worker of   *)
(* its lobby.  A step of a connection task leaves what every worker owns    *)
(* unchanged (it only enqueues), and a step in which a hook is called on an *)
(* instance is a step of that instance's worker alone, from one position of *)
(* its loop, so no two hook calls on the instance overlap.                  *)
C31_SingleWriterLobby ==
    [][/\ ConnectionTaskStep =>
            \A w \in DOMAIN rt : OwnedByWorker(rt'[w]) = OwnedByWorker(rt[w])
       /\ \A w \in DOMAIN rt :
            (rt'[w].hooks # rt[w].hooks \/ rt'[w].lastCall # rt[w].lastCall) =>
               /\ ~ConnectionTaskStep
               /\ rt[w].pc \in {"check", "recv", "window", "ontick"}
               /\ \A v \in DOMAIN rt \ {w} : OwnedByWorker(rt'[v]) = OwnedByWorker(rt[v])]_vars

\* two lobbies each had a hook called by their own worker while both players sent requests
C31_Witness ==
    /\ Len(rt) = 2
    /\ rt[1].lastCall.hook = "on_join"
    /\ rt[2].lastCall.hook = "on_tick"
    /\ routed.n = MaxReqs
    /\ \E i \in DOMAIN rt[1].sent : rt[1].sent[i].p = 2

(* ------------------------ SpecSend: sessions whose receiver is gone ---- *)
(* The lobby of SpecWorker, with writer tasks that may end: the writer of  *)
(* a connection owns the receiver connect returned and drops it when it    *)
(* ends, while the session stays in the map.                               *)

\* the writer task of connection c ends on a transport error (followed here for the
\* connection of player 1)
WriterExit(c) ==
    /\ c \notin rx_dropped
    /\ rx_dropped' = rx_dropped \cup {c}
    /\ UNCHANGED <<conn, sessions, outq, subscriptions, handlers, rt, routed, poisoned,
                   replyVars>>

NextSend ==
    \/ NextWorker
    \/ WriterExit(1)

SpecSend == InitWorker /\ [][NextSend]_vars

\* the copies of msg that reach the queue of connection c when it is sent to ids in turn
RECURSIVE CopiesFor(_, _, _)
CopiesFor(c, ids, msg) ==
    IF ids = <<>> THEN <<>>
    ELSE (IF Head(ids) \in DOMAIN sessions /\ sessions[Head(ids)] = c /\ c \notin rx_dropped
          THEN <<msg>> ELSE <<>>) \o CopiesFor(c, Tail(ids), msg)

\* what connection c is owed for the emitted deltas es of worker r, in their order
RECURSIVE OwedFor(_, _, _)
OwedFor(c, r, es) ==
    IF es = <<>> THEN <<>>
    ELSE LET d == Head(es).diff
             ids == CASE d.kind = "All" -> SetToSeq(Head(es).players)
                      [] d.kind = "TargetUnique" -> <<d.ids[1]>>
                      [] OTHER -> d.ids
         IN  CopiesFor(c, ids, DiffNotificationNew(r.type_, r.id, <<d.delta>>))
                \o OwedFor(c, r, Tail(es))

(* C32: send and send_all to a player without a session, or whose outbound *)
(* queue is closed, drop the message silently: in every step in which the  *)
(* worker emits, each connection's queue gains exactly the copies addressed *)
(* to its live session (every other recipient still gets its copy, a queue  *)
(* that is closed gains nothing), the worker goes on with the state its     *)
(* hook left, and sessions and receivers are untouched.                     *)
C32_SendToMissingSessionDropped ==
    [][\A w \in DOMAIN rt :
          (rt'[w].emitted # rt[w].emitted \/ (rt[w].pc = "check" /\ rt'[w].pc = "done")) =>
             LET new == SubSeq(rt'[w].emitted, Len(rt[w].emitted) + 1, Len(rt'[w].emitted))
                 fin == IF rt'[w].pc = "done"
                        THEN SetToSeq(rt[w].players_cxts) ELSE <<>>
             IN  /\ \A c \in Conns :
                       outq'[c] = outq[c] \o OwedFor(c, rt'[w], new)
                                    \o CopiesFor(c, fin,
                                           DiffNotificationFinish(rt[w].type_, rt[w].id))
                 /\ \A c \in rx_dropped : outq'[c] = outq[c]
                 /\ rt'[w].lastCall.ret = [k \in 1..Len(new) |-> new[k].diff]
                 /\ UNCHANGED <<sessions, rx_dropped, conn>>]_vars

\* the receiver of player 1 is gone, the lobby holds players 1 and 2, and a Diff::All
\* the hooks returned reached player 2 while the queue of player 1 gained nothing
C32_Witness ==
    /\ rx_dropped = {1}
    /\ rt[1].players_cxts = {1, 2}
    /\ rt[1].lastCall.ret # <<>>
    /\ rt[1].lastCall.ret[1].kind = "All"
    /\ outq[2] # <<>>
    /\ outq[2][Len(outq[2])].data = <<rt[1].lastCall.ret[1].delta>>
    /\ \A i \in DOMAIN outq[1] : outq[1][i].method # "diff"

(* ------------------------ SpecFinish: the lobby of SpecWorker, running -- *)
(* The worker's thread is scheduled and time passes: a step the worker can *)
(* take is taken, and the clock moves when every worker waits.             *)

SpecFinish ==
    /\ InitWorker
    /\ [][NextWorker]_vars
    /\ WF_vars(WorkerStep(1))
    /\ WF_vars(Advance)

\* hooks.is_finished() answered (false, _): the loop goes on to its receive
AnswersNotFinished == rt[1].pc = "check" /\ rt'[1].pc = "recv"

(* C33: if is_finished answers true from some point on, the worker          *)
(* eventually enqueues the finished notification and terminates, whether or *)
(* not any event arrives: a worker that never terminates is one whose       *)
(* is_finished answers false again and again.                               *)
C33_FinishedLobbyTerminates ==
    ([]<><<AnswersNotFinished>>_vars) \/ <>(rt[1].pc = "done")

\* the worker ran its cycles with no event after the creator's Join and has terminated
\* on is_finished, the finish notice being the last message in the creator's queue
C33_Witness ==
    /\ rt[1].pc = "done"
    /\ rt[1].sent = <<EvJoin(1)>>
    /\ rt[1].players_cxts = {1}
    /\ rt[1].lastCall.hook = "is_finished"
    /\ outq[1][Len(outq[1])] = DiffNotificationFinish("chat", "r1")

\* the registry entry for the lobby of worker w leads to another worker
Replaced(w) ==
    /\ rt[w].id \in DOMAIN handlers[rt[w].type_]
    /\ handlers[rt[w].type_][rt[w].id] # w

(* C34: after any sequence of Create requests at most one live lobby worker *)
(* exists per (lobby type, lobby id), and a worker whose handle is no       *)
(* longer in the registry does not keep running and ticking: it calls       *)
(* on_tick no more.                                                         *)
C34_OneLiveWorkerPerLobby ==
    /\ [](\A v \in DOMAIN rt : \A w \in DOMAIN rt :
            (/\ v # w
             /\ rt[v].type_ = rt[w].type_
             /\ rt[v].id = rt[w].id
             /\ rt[v].pc # "done") => rt[w].pc = "done")
    /\ [][\A w \in DOMAIN rt :
            (Replaced(w) /\ rt'[w].lastCall # rt[w].lastCall) =>
                rt'[w].lastCall.hook # "on_tick"]_vars

(* C35: the Diff{finished:true} is the last envelope a lobby worker         *)
(* enqueues.  The step in which the worker finishes puts the finish notice  *)
(* last in the queue of each of its players; after it no queue gains a      *)
(* message, and an event sent to its handle is accepted by the sender and   *)
(* dropped: nothing reaches the channel and no hook is called.              *)
C35_FinishNoticeIsLast ==
    [][/\ (rt[1].pc # "done" /\ rt'[1].pc = "done") =>
             \A p \in rt[1].players_cxts :
                 /\ outq'[sessions[p]] # <<>>
                 /\ outq'[sessions[p]][Len(outq'[sessions[p]])]
                        = DiffNotificationFinish(rt[1].type_, rt[1].id)
       /\ rt[1].pc = "done" =>
             /\ outq' = outq
             /\ OwnedByWorker(rt'[1]) = OwnedByWorker(rt[1])
             /\ rt'[1].chan = <<>>
             /\ (rt'[1] # rt[1] => Len(rt'[1].sent) = Len(rt[1].sent) + 1)]_vars

\* the worker ticked the Action of player 2 and finished; the Join(2) sent to its handle
\* was dropped: player 2 is not in the lobby and the last hook call is is_finished
C35_Witness ==
    /\ rt[1].pc = "done"
    /\ Len(rt[1].sent) = 3
    /\ rt[1].sent[2].kind = "Action"
    /\ Len(rt[1].ticked) = 1
    /\ rt[1].sent[3] = EvJoin(2)
    /\ rt[1].players_cxts = {1}
    /\ rt[1].lastCall.hook = "is_finished"
    /\ outq[1][Len(outq[1])] = DiffNotificationFinish("chat", "r1")

(* C36: every (player, action) passed to on_tick belongs to a player who    *)
(* was in the lobby's players map when the action was received: an Action   *)
(* of a player who never joined the lobby, or who has left it, is neither   *)
(* buffered nor delivered to on_tick.                                       *)
C36_ActionsOnlyFromMembers ==
    /\ [](\A w \in DOMAIN rt : \A i \in DOMAIN rt[w].ticked :
              SentJoin(w, rt[w].ticked[i][1]))
    /\ [][\A w \in DOMAIN rt :
            Len(rt'[w].received) > Len(rt[w].received) =>
                rt'[w].received[Len(rt'[w].received)][1] \in rt[w].players_cxts]_vars

(* C37: vacuum resolves a pending reply with Timeout only if that           *)
(* registration's own expiry has passed, also when its id was registered    *)
(* before and the earlier expiry entry is still in the heap.                *)
C37_TimeoutOnlyAfterOwnExpiry ==
    [][\A n \in DOMAIN delivered :
          (delivered'[n] # delivered[n] /\ delivered'[n][Len(delivered'[n])] = "Timeout") =>
              \E e \in Expiries : /\ e.n = n
                                  /\ e.expires_at <= vac[LoopTask].now]_vars

(* C38: two vacuum calls running concurrently, or a vacuum concurrent with  *)
(* register, never pop a heap entry that has not expired and never hit the  *)
(* panic of the pop on an empty heap.                                       *)
C38_ConcurrentVacuumPopsWhatItPeeked ==
    /\ [](\A t \in DOMAIN vac : vac[t].pc # "panicked")
    /\ [][\A t \in DOMAIN vac :
            (vac[t].pc = "pop" /\ vac'[t].pc = "remove") =>
                vac'[t].popped.expires_at <= vac[t].now]_vars

\* worker w has taken nothing from its channel yet
NothingTaken(r) == r.pc # "done" /\ Len(r.chan) = Len(r.sent)

StreamSend ==
    /\ rt[1].pc = "recv"
    /\ rt[1].chan = <<>>
    /\ \E ev \in {EvJoin(2), EvLeave(2)} :
         rt' = [rt EXCEPT ![1] = [HandleSend(@, ev) EXCEPT !.sent = rt[1].sent]]
    /\ UNCHANGED <<conn, sessions, outq, subscriptions, handlers, routed, poisoned, rx_dropped, replyVars>>

NextStream ==
    \/ NextWorker
    \/ StreamSend

SpecStream ==
    /\ InitWorker
    /\ [][NextStream]_vars
    /\ WF_vars(WorkerStep(1))
    /\ WF_vars(Advance)

\* the worker calls on_tick: on an idle timeout or at the end of a batching window
CallsOnTick == IdleTimeout(1) \/ OnTick(1)

(* C40: while a lobby worker is alive on_tick keeps being invoked even if   *)
(* Join / Leave events keep arriving: in a run where time keeps passing and *)
(* the worker never terminates, on_tick is called again and again, so a     *)
(* steady stream of Join / Leave cannot postpone it indefinitely.           *)
C40_StreamCannotPostponeOnTick ==
    ([]<><<Advance>>_vars) =>
        (([]<><<CallsOnTick>>_vars) \/ <>(rt[1].pc = "done"))

=============================================================================
